---- MODULE Spec2Model ----
(***************************************************************************)
(* Tenant context binding and business rules of the multi-tenant SaaS      *)
(* scaffold: the tenant-aware Prisma client (src/lib/prisma/client.ts),    *)
(* the service layer (src/lib/services), the tenant middleware and the     *)
(* tenant memberships route.                                               *)
(*                                                                         *)
(* The database is a set of rows per table.  A $transaction block is one   *)
(* atomic step (the strongest isolation the engine could give); every      *)
(* statement awaited outside a transaction is a step of its own.           *)
(***************************************************************************)
EXTENDS Integers, FiniteSets, Sequences, TLC

(* ---- bounds ---- *)
MaxTenants == 2
MaxUsers == 2
MaxInvitations == 2
MaxChildRows == 1
MaxTicks == 2
PoolSize == 2

(* ---- domains ---- *)
Procs == {1, 2}
NoTenant == 0
TenantIds == 1..MaxTenants
DefaultTenantId == 1
Slugs == {"default", "acme"}
Identities == {"ext_1", "ext_2"}
Emails == {"a@acme.com", "b@acme.com"}
TenantRoleEnum == {"owner", "admin", "member", "viewer"}
TenantStatusEnum == {"active", "suspended", "cancelled"}
InvitationStatusEnum == {"pending", "accepted", "expired", "revoked"}
InputRoles == {"owner", "admin", "member"}
InputStatuses == {"active"}
Connections == 1..PoolSize
InvitationTtl == 7

VARIABLES
  tenants,        \* table tenants: set of [id, slug, status]
  users,          \* table tenant_users: set of rows
  invitations,    \* table tenant_invitations: set of rows
  audit_logs,     \* table audit_logs: set of [id, tenant_id]
  tenant_settings, \* table tenant_settings: set of [id, tenant_id]
  now,            \* wall clock, in days
  connSetting,    \* app.current_tenant_id of each pooled session
  rlsEnforced,    \* whether the RLS policies apply to the application's role
  clientTenantId, \* TenantAwarePrismaClient.tenantId of each client object
  pc,             \* position of each request
  req,            \* arguments and locals of each request
  result,         \* outcome of the last operation of each request
  lastOp,         \* history: what the last statement or transaction did
  observe         \* whether the history is recorded in this behaviour

vars == <<tenants, users, invitations, audit_logs, tenant_settings, now,
          connSetting, rlsEnforced, clientTenantId, pc, req, result, lastOp,
          observe>>

dbVars == <<tenants, users, invitations, audit_logs, tenant_settings>>

(* ---- client objects: 0 is the exported global instance, p the one a ---- *)
(* ---- request p constructs for itself                                ---- *)
GlobalClient == 0
Clients == {GlobalClient} \cup Procs

(* ---- request record ---- *)
NoReq ==
  [op |-> "none", client |-> GlobalClient, scope |-> NoTenant,
   tenantId |-> NoTenant, clerkUserId |-> "ext_1", email |-> "a@acme.com",
   role |-> "member", status |-> "active", invitationId |-> 0,
   slug |-> "default", userId |-> 0, currentRole |-> "member",
   wtcArg |-> NoTenant, cbOutcome |-> "none"]

NoResult == [op |-> "none", tenantId |-> NoTenant, role |-> "member",
             outcome |-> "none"]

(* ---- an optional string: {} is null or undefined, {s} is the string s ---- *)
Null == {}
Truthy(v) == v # Null /\ v # {""}

(* ---- what getTenantContext did: its inputs after defaults, its result ---- *)
NoContext ==
  [outcome |-> <<>>, error |-> "none", extracted |-> Null, required |-> TRUE,
   fallback |-> Null,
   fallbackUsed |-> FALSE, slug |-> Null, lookups |-> <<>>, role |-> Null,
   permissions |-> {}]

NoOp ==
  [op |-> "none", proc |-> 0, scope |-> NoTenant, setting |-> NoTenant,
   inTx |-> FALSE, touched |-> {}, created |-> NoTenant,
   payload |-> NoTenant, wtcArg |-> NoTenant, caller |-> "none",
   callerIsMember |-> FALSE, outcome |-> "none", ctx |-> NoContext,
   permission |-> "none", thrown |-> <<>>, status |-> 0,
   prisma |-> "none", handler |-> FALSE,
   accessor |-> "none", method |-> "none", reached |-> FALSE,
   reported |-> {}, at |-> 0]

(* ---- row level security (schema DDL) ---- *)
RlsVisible(rows, setting) ==
  IF rlsEnforced THEN {r \in rows : r.tenant_id = setting} ELSE rows

RlsAllowsWrite(row, setting) ==
  rlsEnforced => row.tenant_id = setting

(* ---- unique index of tenants.slug ---- *)
TenantUniqueViolation_none(row, rows) == FALSE

TenantUniqueViolation(row, rows) ==
  \E t \in rows : t.id # row.id /\ t.slug = row.slug

(* ---- unique indexes of tenant_users ---- *)
UserUniqueViolation_perTenant(row, rows) ==
  \E u \in rows :
    u.tenant_id = row.tenant_id
    /\ (u.clerk_user_id = row.clerk_user_id \/ u.email = row.email)

UserUniqueViolation(row, rows) ==
  \E u \in rows :
    \/ u.clerk_user_id = row.clerk_user_id
    \/ (u.tenant_id = row.tenant_id /\ u.email = row.email)

(* ---- gen_random_uuid(): ids are opaque; the least unused one ---- *)
FreeIds(rows, max) == {i \in 1..max : \A r \in rows : r.id # i}
FreshId(rows, max) ==
  IF FreeIds(rows, max) = {} THEN max + 1
  ELSE CHOOSE i \in FreeIds(rows, max) : \A j \in FreeIds(rows, max) : i <= j

TenantsOf(rows) == {r.tenant_id : r \in rows}

OwnerCount(t) == Cardinality({u \in users : u.tenant_id = t /\ u.role = "owner"})

InitWith(obs) ==
  /\ observe = obs
  /\ tenants = {[id |-> DefaultTenantId, slug |-> "default", status |-> "active"]}
  /\ users = {}
  /\ invitations = {}
  /\ audit_logs = {}
  /\ tenant_settings = {}
  /\ now = 0
  /\ connSetting = [c \in Connections |-> NoTenant]
  /\ rlsEnforced \in BOOLEAN
  /\ clientTenantId = [cl \in Clients |-> NoTenant]
  /\ pc = [p \in Procs |-> "idle"]
  /\ req = [p \in Procs |-> NoReq]
  /\ result = [p \in Procs |-> NoResult]
  /\ lastOp = NoOp

(* ---- what a transaction body leaves behind when it returns or throws ---- *)
Res(outcome, t, u, i, touched, created) ==
  [outcome |-> outcome, tenants |-> t, users |-> u, invitations |-> i,
   touched |-> touched, created |-> created]

transaction_autocommit(r) == r

(* prisma.$transaction(callback): commit on return, roll back on throw *)
transaction(r) ==
  IF r.outcome = "ok" THEN r
  ELSE [r EXCEPT !.tenants = tenants, !.users = users, !.invitations = invitations]

(* ---- TenantService.createTenant ---- *)
createTenantTx_ownerless(setting, slug, ownerClerkUserId, ownerEmail) ==
  IF \E t \in tenants : t.slug = slug
  THEN Res("TenantBusinessRuleError", tenants, users, invitations, {}, NoTenant)
  ELSE Res("ok",
           tenants \cup {[id |-> FreshId(tenants, MaxTenants), slug |-> slug,
                          status |-> "active"]},
           users, invitations,
           {FreshId(tenants, MaxTenants)}, FreshId(tenants, MaxTenants))

createTenantTx(setting, slug, ownerClerkUserId, ownerEmail) ==
  IF \E t \in tenants : t.slug = slug
  THEN Res("TenantBusinessRuleError", tenants, users, invitations, {}, NoTenant)
  ELSE
    LET tid == FreshId(tenants, MaxTenants)
        tenant == [id |-> tid, slug |-> slug, status |-> "active"]
        ownerUser == [id |-> FreshId(users, MaxUsers), tenant_id |-> tid,
                      clerk_user_id |-> ownerClerkUserId, email |-> ownerEmail,
                      role |-> "owner", status |-> "active"]
    IN IF UserUniqueViolation(ownerUser, users) \/ ~RlsAllowsWrite(ownerUser, setting)
       THEN Res("PrismaError", tenants \cup {tenant}, users, invitations, {}, NoTenant)
       ELSE Res("ok", tenants \cup {tenant}, users \cup {ownerUser}, invitations,
                {tid}, tid)

enforceOwnershipRules_lax(vis, userId, newRole, tenantId) == "ok"

(* ---- TenantUserService.enforceOwnershipRules ---- *)
enforceOwnershipRules(vis, userId, newRole, tenantId) ==
  IF newRole = "owner"
  THEN IF \E u \in vis : u.tenant_id = tenantId /\ u.role = "owner" /\ u.id # userId
       THEN "TenantBusinessRuleError" ELSE "ok"
  ELSE IF Cardinality({u \in vis : u.tenant_id = tenantId /\ u.role = "admin"
                                   /\ u.id # userId}) = 0
       THEN "TenantBusinessRuleError" ELSE "ok"

(* ---- TenantUserService.updateUserRole ---- *)
updateUserRoleTx(setting, userId, validRole) ==
  LET vis == RlsVisible(users, setting)
      cur == {u \in vis : u.id = userId}
  IN IF cur = {}
     THEN Res("TenantUserNotFoundError", tenants, users, invitations, {}, NoTenant)
     ELSE
       LET currentUser == CHOOSE u \in cur : TRUE
           rule == IF validRole = "owner" \/ currentUser.role = "owner"
                   THEN enforceOwnershipRules(vis, userId, validRole,
                                              currentUser.tenant_id)
                   ELSE "ok"
       IN IF rule # "ok"
          THEN Res(rule, tenants, users, invitations, TenantsOf(cur), NoTenant)
          ELSE Res("ok", tenants,
                   (users \ cur) \cup {[currentUser EXCEPT !.role = validRole]},
                   invitations, TenantsOf(cur), NoTenant)

(* ---- TenantUserService.updateUserStatus ---- *)
updateUserStatusTx_unguarded(setting, userId, validStatus) ==
  LET cur == {u \in RlsVisible(users, setting) : u.id = userId}
  IN IF cur = {}
     THEN Res("TenantUserNotFoundError", tenants, users, invitations, {}, NoTenant)
     ELSE Res("ok", tenants,
              (users \ cur) \cup {[u EXCEPT !.status = validStatus] : u \in cur},
              invitations, TenantsOf(cur), NoTenant)

updateUserStatusTx(setting, userId, validStatus) ==
  LET vis == RlsVisible(users, setting)
      cur == {u \in vis : u.id = userId}
  IN IF cur = {}
     THEN Res("TenantUserNotFoundError", tenants, users, invitations, {}, NoTenant)
     ELSE
       LET currentUser == CHOOSE u \in cur : TRUE
           activeOwnerCount ==
             Cardinality({u \in vis : u.tenant_id = currentUser.tenant_id
                                      /\ u.role = "owner" /\ u.status = "active"})
       IN IF validStatus = "suspended" /\ currentUser.role = "owner"
             /\ activeOwnerCount = 1
          THEN Res("TenantBusinessRuleError", tenants, users, invitations,
                   TenantsOf(cur), NoTenant)
          ELSE Res("ok", tenants,
                   (users \ cur) \cup {[currentUser EXCEPT !.status = validStatus]},
                   invitations, TenantsOf(cur), NoTenant)

(* ---- TenantUserService.deleteUser ---- *)
deleteUserTx_unguarded(setting, userId) ==
  LET cur == {u \in RlsVisible(users, setting) : u.id = userId}
  IN IF cur = {}
     THEN Res("TenantUserNotFoundError", tenants, users, invitations, {}, NoTenant)
     ELSE Res("ok", tenants, users \ cur, invitations, TenantsOf(cur), NoTenant)

deleteUserTx_ignoreMissing(setting, userId) ==
  LET vis == RlsVisible(users, setting)
      cur == {u \in vis : u.id = userId}
      ownerCount == Cardinality({u \in vis : \E c \in cur :
                                   u.tenant_id = c.tenant_id /\ u.role = "owner"})
  IN IF (\E c \in cur : c.role = "owner") /\ ownerCount = 1
     THEN Res("TenantBusinessRuleError", tenants, users, invitations,
              TenantsOf(cur), NoTenant)
     ELSE Res("ok", tenants, users \ cur, invitations, TenantsOf(cur), NoTenant)

deleteUserTx(setting, userId) ==
  LET vis == RlsVisible(users, setting)
      cur == {u \in vis : u.id = userId}
  IN IF cur = {}
     THEN Res("TenantUserNotFoundError", tenants, users, invitations, {}, NoTenant)
     ELSE
       LET currentUser == CHOOSE u \in cur : TRUE
           ownerCount ==
             Cardinality({u \in vis : u.tenant_id = currentUser.tenant_id
                                      /\ u.role = "owner"})
       IN IF currentUser.role = "owner" /\ ownerCount = 1
          THEN Res("TenantBusinessRuleError", tenants, users, invitations,
                   TenantsOf(cur), NoTenant)
          ELSE Res("ok", tenants, users \ cur, invitations, TenantsOf(cur), NoTenant)

(* ---- TenantUserService.enforceBusinessRules: its three findFirst ---- *)
existingOwner_skipped(vis, data) == FALSE

existingOwner(vis, data) ==
  data.role = "owner"
  /\ \E u \in vis : u.tenant_id = data.tenantId /\ u.role = "owner"

existingUser(vis, data) ==
  \E u \in vis : u.tenant_id = data.tenantId
                 /\ u.clerk_user_id = data.clerkUserId

existingEmail(vis, data) ==
  \E u \in vis : u.tenant_id = data.tenantId /\ u.email = data.email

enforceBusinessRules(vis, data) ==
  IF existingOwner(vis, data) \/ existingUser(vis, data)
     \/ existingEmail(vis, data)
  THEN "TenantBusinessRuleError" ELSE "ok"

(* ---- TenantUserService.createUser: the transaction of lines 31-57 ---- *)
createUserTx(setting, data) ==
  LET vis == RlsVisible(users, setting)
      row == [id |-> FreshId(users, MaxUsers), tenant_id |-> data.tenantId,
              clerk_user_id |-> data.clerkUserId, email |-> data.email,
              role |-> data.role, status |-> data.status]
  IN IF existingUser(vis, data)
     THEN Res("TenantBusinessRuleError", tenants, users, invitations,
              {data.tenantId}, NoTenant)
     ELSE IF \/ UserUniqueViolation(row, users)
             \/ ~RlsAllowsWrite(row, setting)
             \/ ~\E t \in tenants : t.id = data.tenantId
          THEN Res("PrismaError", tenants, users, invitations, {}, NoTenant)
          ELSE Res("ok", tenants, users \cup {row}, invitations,
                   {data.tenantId}, data.tenantId)

(* ---- unique index of pending invitations per (tenant, email) ---- *)
InvitationUniqueViolation_none(row, rows) == FALSE

InvitationUniqueViolation(row, rows) ==
  /\ row.status = "pending"
  /\ \E i \in rows : i.tenant_id = row.tenant_id /\ i.email = row.email
                     /\ i.status = "pending"

NoTime == 0 - 1

createInvitationTx_ownersIgnored(setting, data) ==
  LET row == [id |-> FreshId(invitations, MaxInvitations),
              tenant_id |-> data.tenantId, email |-> data.email,
              role |-> data.role, status |-> data.status,
              expires_at |-> now + InvitationTtl, accepted_at |-> NoTime]
  IN IF \/ \E i \in invitations : i.tenant_id = data.tenantId
                                  /\ i.email = data.email /\ i.status = "pending"
        \/ \E u \in users : u.tenant_id = data.tenantId /\ u.email = data.email
     THEN Res("TenantBusinessRuleError", tenants, users, invitations,
              {data.tenantId}, NoTenant)
     ELSE Res("ok", tenants, users, invitations \cup {row},
              {data.tenantId}, data.tenantId)

createInvitationTx_membersIgnored(setting, data) ==
  LET row == [id |-> FreshId(invitations, MaxInvitations),
              tenant_id |-> data.tenantId, email |-> data.email,
              role |-> data.role, status |-> data.status,
              expires_at |-> now + InvitationTtl, accepted_at |-> NoTime]
  IN IF InvitationUniqueViolation(row, invitations)
     THEN Res("TenantBusinessRuleError", tenants, users, invitations,
              {data.tenantId}, NoTenant)
     ELSE Res("ok", tenants, users, invitations \cup {row},
              {data.tenantId}, data.tenantId)

(* ---- TenantInvitationService.createInvitation ---- *)
createInvitationTx(setting, data) ==
  LET visI == RlsVisible(invitations, setting)
      visU == RlsVisible(users, setting)
      row == [id |-> FreshId(invitations, MaxInvitations),
              tenant_id |-> data.tenantId, email |-> data.email,
              role |-> data.role, status |-> data.status,
              expires_at |-> now + InvitationTtl, accepted_at |-> NoTime]
  IN IF \E i \in visI : i.tenant_id = data.tenantId /\ i.email = data.email
                        /\ i.status = "pending"
     THEN Res("TenantBusinessRuleError", tenants, users, invitations,
              {data.tenantId}, NoTenant)
     ELSE IF \E u \in visU : u.tenant_id = data.tenantId /\ u.email = data.email
     THEN Res("TenantBusinessRuleError", tenants, users, invitations,
              {data.tenantId}, NoTenant)
     ELSE IF data.role = "owner"
             /\ \E u \in visU : u.tenant_id = data.tenantId /\ u.role = "owner"
     THEN Res("TenantBusinessRuleError", tenants, users, invitations,
              {data.tenantId}, NoTenant)
     ELSE IF \/ InvitationUniqueViolation(row, invitations)
             \/ ~RlsAllowsWrite(row, setting)
             \/ ~\E t \in tenants : t.id = data.tenantId
     THEN Res("PrismaError", tenants, users, invitations, {}, NoTenant)
     ELSE Res("ok", tenants, users, invitations \cup {row},
              {data.tenantId}, data.tenantId)

acceptInvitationTx_markOnly(setting, invitationId, clerkUserId) ==
  Res("ok", tenants, users,
      {[i EXCEPT !.status = IF i.id = invitationId THEN "accepted" ELSE i.status,
                 !.accepted_at = IF i.id = invitationId THEN now
                                 ELSE i.accepted_at] : i \in invitations},
      {}, NoTenant)

(* ---- TenantInvitationService.acceptInvitation ---- *)
acceptInvitationTx(setting, invitationId, clerkUserId) ==
  LET visI == RlsVisible(invitations, setting)
      visU == RlsVisible(users, setting)
      cur == {i \in visI : i.id = invitationId}
  IN IF cur = {} \/ \E i \in cur : i.status # "pending"
     THEN Res("TenantBusinessRuleError", tenants, users, invitations,
              TenantsOf(cur), NoTenant)
     ELSE
       LET invitation == CHOOSE i \in cur : TRUE
           user == [id |-> FreshId(users, MaxUsers),
                    tenant_id |-> invitation.tenant_id,
                    clerk_user_id |-> clerkUserId, email |-> invitation.email,
                    role |-> invitation.role, status |-> "active"]
       IN IF invitation.expires_at < now
          THEN Res("TenantBusinessRuleError", tenants, users,
                   (invitations \ cur)
                     \cup {[invitation EXCEPT !.status = "expired"]},
                   TenantsOf(cur), NoTenant)
          ELSE IF \E u \in visU : u.tenant_id = invitation.tenant_id
                                  /\ u.clerk_user_id = clerkUserId
          THEN Res("TenantBusinessRuleError", tenants, users, invitations,
                   TenantsOf(cur), NoTenant)
          ELSE IF invitation.role = "owner"
                  /\ \E u \in visU : u.tenant_id = invitation.tenant_id
                                     /\ u.role = "owner"
          THEN Res("TenantBusinessRuleError", tenants, users, invitations,
                   TenantsOf(cur), NoTenant)
          ELSE IF UserUniqueViolation(user, users) \/ ~RlsAllowsWrite(user, setting)
          THEN Res("PrismaError", tenants, users, invitations,
                   TenantsOf(cur), NoTenant)
          ELSE Res("ok", tenants, users \cup {user},
                   (invitations \ cur)
                     \cup {[invitation EXCEPT !.status = "accepted",
                                              !.accepted_at = now]},
                   TenantsOf(cur), invitation.tenant_id)

revokeInvitationTx_any(setting, invitationId) ==
  Res("ok", tenants, users,
      {[i EXCEPT !.status = IF i.id = invitationId THEN "revoked" ELSE i.status] :
         i \in invitations},
      {}, NoTenant)

(* ---- TenantInvitationService.revokeInvitation ---- *)
revokeInvitationTx(setting, invitationId) ==
  LET visI == RlsVisible(invitations, setting)
      cur == {i \in visI : i.id = invitationId}
  IN IF cur = {}
     THEN Res("TenantNotFoundError", tenants, users, invitations, {}, NoTenant)
     ELSE
       LET invitation == CHOOSE i \in cur : TRUE
       IN IF invitation.status # "pending"
          THEN Res("TenantBusinessRuleError", tenants, users, invitations,
                   TenantsOf(cur), NoTenant)
          ELSE Res("ok", tenants, users,
                   (invitations \ cur)
                     \cup {[invitation EXCEPT !.status = "revoked"]},
                   TenantsOf(cur), NoTenant)

(* ---- TenantService.deleteTenant (ON DELETE CASCADE on every child) ---- *)
deleteTenantTx(setting, tenantId) ==
  LET visU == RlsVisible(users, setting)
  IN IF ~\E t \in tenants : t.id = tenantId
     THEN Res("TenantNotFoundError", tenants, users, invitations, {}, NoTenant)
     ELSE IF Cardinality({u \in visU : u.tenant_id = tenantId}) > 0
     THEN Res("TenantBusinessRuleError", tenants, users, invitations,
              {tenantId}, NoTenant)
     ELSE Res("ok", {t \in tenants : t.id # tenantId},
              {u \in users : u.tenant_id # tenantId},
              {i \in invitations : i.tenant_id # tenantId},
              {}, NoTenant)

(* ---- TenantService.updateTenant ---- *)
updateTenantTx(setting, tenantId, validatedData) ==
  LET cur == {t \in tenants : t.id = tenantId}
  IN IF cur = {}
     THEN Res("TenantNotFoundError", tenants, users, invitations, {}, NoTenant)
     ELSE
       LET existingTenant == CHOOSE t \in cur : TRUE
       IN IF validatedData.slug # existingTenant.slug
             /\ \E t \in tenants : t.slug = validatedData.slug
          THEN Res("TenantBusinessRuleError", tenants, users, invitations,
                   {}, NoTenant)
          ELSE Res("ok",
                   (tenants \ cur)
                     \cup {[existingTenant EXCEPT !.slug = validatedData.slug,
                                                  !.status = validatedData.status]},
                   users, invitations, {}, NoTenant)

(* ---- TenantInvitationService.getPendingInvitationsByTenant: one findMany ---- *)
getPendingInvitationsByTenant(setting, tenantId) ==
  {i \in RlsVisible(invitations, setting) :
     i.tenant_id = tenantId /\ i.status = "pending" /\ i.expires_at > now}

(* ---- TenantInvitationService.cleanupExpiredInvitations: one updateMany ---- *)
cleanupExpiredInvitationsStmt(setting) ==
  LET hit == {i \in RlsVisible(invitations, setting) :
                i.status = "pending" /\ i.expires_at < now}
  IN Res("ok", tenants, users,
         (invitations \ hit) \cup {[i EXCEPT !.status = "expired"] : i \in hit},
         TenantsOf(hit), NoTenant)

(* ---- REFERENCES tenants(id) ON DELETE CASCADE of audit_logs and ---- *)
(* ---- tenant_settings: the rows of deleted tenants go with them   ---- *)
OnDeleteCascade_none(rows, parents) == rows

OnDeleteCascade(rows, parents) ==
  {x \in rows : \E t \in parents : t.id = x.tenant_id}

(* ---- the model's tables are full: the step is not taken ---- *)
WithinBounds(r) ==
  /\ \A t \in r.tenants : t.id <= MaxTenants
  /\ \A u \in r.users : u.id <= MaxUsers
  /\ \A i \in r.invitations : i.id <= MaxInvitations

Record(op) == IF observe THEN op ELSE NoOp

(* ---- a service call that is one $transaction, on a pooled session whose ---- *)
(* ---- app.current_tenant_id is `setting`                                ---- *)
Commit(p, op, scope, setting, body, payload) ==
  LET r == transaction(body)
  IN /\ WithinBounds(r)
     /\ tenants' = r.tenants
     /\ users' = r.users
     /\ invitations' = r.invitations
     /\ audit_logs' = OnDeleteCascade(audit_logs, r.tenants)
     /\ tenant_settings' = OnDeleteCascade(tenant_settings, r.tenants)
     /\ pc' = [pc EXCEPT ![p] = "idle"]
     /\ req' = [req EXCEPT ![p] = NoReq]
     /\ lastOp' = Record([NoOp EXCEPT !.op = op, !.proc = p, !.scope = scope,
                               !.setting = setting, !.inTx = TRUE,
                               !.touched = r.touched, !.created = r.created,
                               !.payload = payload, !.outcome = r.outcome])
     /\ UNCHANGED <<now, connSetting, rlsEnforced, clientTenantId, observe>>

createTenant(p, setting, slug, ownerClerkUserId, ownerEmail) ==
  /\ pc[p] = "idle"
  /\ Commit(p, "createTenant", NoTenant, setting,
            createTenantTx(setting, slug, ownerClerkUserId, ownerEmail),
            NoTenant)
  /\ UNCHANGED result

updateUserRole(p, scope, setting, userId, newRole) ==
  /\ pc[p] = "idle"
  /\ Commit(p, "updateUserRole", scope, setting,
            updateUserRoleTx(setting, userId, newRole), NoTenant)
  /\ UNCHANGED result

updateUserStatus(p, scope, setting, userId, newStatus) ==
  /\ pc[p] = "idle"
  /\ Commit(p, "updateUserStatus", scope, setting,
            updateUserStatusTx(setting, userId, newStatus), NoTenant)
  /\ UNCHANGED result

(* ---- validateTenantUserRole, validateTenantUserStatus: z.enum.parse ---- *)
(* ---- throws a ZodError before the transaction is opened             ---- *)
Throw(p, op, scope, setting, error) ==
  /\ pc[p] = "idle"
  /\ lastOp' = Record([NoOp EXCEPT !.op = op, !.proc = p, !.scope = scope,
                            !.setting = setting, !.outcome = error])
  /\ UNCHANGED <<dbVars, now, connSetting, rlsEnforced, clientTenantId, pc,
                 req, result, observe>>

updateUserRole_unknown(p, scope, setting, userId, newRole) ==
  IF newRole \notin TenantRoleEnum
  THEN Throw(p, "updateUserRole", scope, setting, "ZodError")
  ELSE updateUserRole(p, scope, setting, userId, newRole)

updateUserStatus_unknown(p, scope, setting, userId, newStatus) ==
  IF newStatus \notin TenantStatusEnum
  THEN Throw(p, "updateUserStatus", scope, setting, "ZodError")
  ELSE updateUserStatus(p, scope, setting, userId, newStatus)

deleteUser(p, scope, setting, userId) ==
  /\ pc[p] = "idle"
  /\ Commit(p, "deleteUser", scope, setting, deleteUserTx(setting, userId),
            NoTenant)
  /\ UNCHANGED result

createInvitation(p, scope, setting, data) ==
  /\ pc[p] = "idle"
  /\ Commit(p, "createInvitation", scope, setting,
            createInvitationTx(setting, data), data.tenantId)
  /\ UNCHANGED result

acceptInvitation(p, scope, setting, invitationId, clerkUserId) ==
  /\ pc[p] = "idle"
  /\ Commit(p, "acceptInvitation", scope, setting,
            acceptInvitationTx(setting, invitationId, clerkUserId),
            NoTenant)
  /\ UNCHANGED result

revokeInvitation(p, scope, setting, invitationId) ==
  /\ pc[p] = "idle"
  /\ Commit(p, "revokeInvitation", scope, setting,
            revokeInvitationTx(setting, invitationId), NoTenant)
  /\ UNCHANGED result

deleteTenant(p, setting, tenantId) ==
  /\ pc[p] = "idle"
  /\ Commit(p, "deleteTenant", NoTenant, setting,
            deleteTenantTx(setting, tenantId), NoTenant)
  /\ UNCHANGED result

updateTenant(p, setting, tenantId, validatedData) ==
  /\ pc[p] = "idle"
  /\ Commit(p, "updateTenant", NoTenant, setting,
            updateTenantTx(setting, tenantId, validatedData), NoTenant)
  /\ UNCHANGED result

cleanupExpiredInvitations(p, scope, setting) ==
  /\ pc[p] = "idle"
  /\ Commit(p, "cleanupExpiredInvitations", scope, setting,
            cleanupExpiredInvitationsStmt(setting), NoTenant)
  /\ UNCHANGED result

(* ---- TenantUserService.createUser as one request: the rule checks on ---- *)
(* ---- the client, then the transaction                               ---- *)
createUserCall(setting, data) ==
  IF enforceBusinessRules(RlsVisible(users, setting), data) # "ok"
  THEN Res("TenantBusinessRuleError", tenants, users, invitations,
           {data.tenantId}, NoTenant)
  ELSE transaction(createUserTx(setting, data))

createUser(p, scope, setting, data) ==
  /\ pc[p] = "idle"
  /\ Commit(p, "createUser", scope, setting, createUserCall(setting, data),
            data.tenantId)
  /\ UNCHANGED result

(* ---- TenantUserService.createUser step by step, for concurrent requests ---- *)
createUser_call(p, scope, data) ==
  /\ pc[p] = "idle"
  /\ pc' = [pc EXCEPT ![p] = IF data.role = "owner" THEN "cu_owner" ELSE "cu_user"]
  /\ req' = [req EXCEPT ![p] =
               [NoReq EXCEPT !.op = "createUser", !.scope = scope,
                             !.tenantId = data.tenantId,
                             !.clerkUserId = data.clerkUserId,
                             !.email = data.email, !.role = data.role,
                             !.status = data.status]]
  /\ result' = [result EXCEPT ![p] = NoResult]
  /\ UNCHANGED <<dbVars, now, connSetting, rlsEnforced, clientTenantId, lastOp,
                 observe>>

(* one findFirst of enforceBusinessRules, run outside any transaction *)
RuleCheck(p, setting, at, next, hit) ==
  /\ pc[p] = at
  /\ pc' = [pc EXCEPT ![p] = IF hit THEN "idle" ELSE next]
  /\ req' = [req EXCEPT ![p] = IF hit THEN NoReq ELSE req[p]]
  /\ result' = [result EXCEPT ![p] =
                  IF hit THEN [op |-> "createUser", tenantId |-> req[p].tenantId,
                               role |-> req[p].role,
                               outcome |-> "TenantBusinessRuleError"]
                  ELSE result[p]]
  /\ lastOp' = Record([NoOp EXCEPT !.op = "createUser", !.proc = p,
                            !.scope = req[p].scope,
                            !.setting = setting, !.inTx = FALSE,
                            !.touched = {req[p].tenantId},
                            !.payload = req[p].tenantId,
                            !.outcome = IF hit THEN "TenantBusinessRuleError"
                                        ELSE "checked"])
  /\ UNCHANGED <<dbVars, now, connSetting, rlsEnforced, clientTenantId, observe>>

enforceBusinessRules_owner(p, setting) ==
  RuleCheck(p, setting, "cu_owner", "cu_user",
            existingOwner(RlsVisible(users, setting), req[p]))

enforceBusinessRules_user(p, setting) ==
  RuleCheck(p, setting, "cu_user", "cu_email",
            existingUser(RlsVisible(users, setting), req[p]))

enforceBusinessRules_email(p, setting) ==
  RuleCheck(p, setting, "cu_email", "cu_tx",
            existingEmail(RlsVisible(users, setting), req[p]))

createUser_transaction(p, setting) ==
  /\ pc[p] = "cu_tx"
  /\ Commit(p, "createUser", req[p].scope, setting,
            createUserTx(setting, req[p]), req[p].tenantId)
  /\ result' = [result EXCEPT ![p] =
                  [op |-> "createUser", tenantId |-> req[p].tenantId,
                   role |-> req[p].role,
                   outcome |-> transaction(createUserTx(setting, req[p])).outcome]]

(* ---- TenantUserService.updateUserRole step by step: each statement ---- *)
(* ---- of the callback reads what is committed when it runs (READ    ---- *)
(* ---- COMMITTED, the level $transaction opens by default)           ---- *)
updateUserRole_call(p, scope, userId, validRole) ==
  /\ pc[p] = "idle"
  /\ pc' = [pc EXCEPT ![p] = "ur_find"]
  /\ req' = [req EXCEPT ![p] =
               [NoReq EXCEPT !.op = "updateUserRole", !.scope = scope,
                             !.userId = userId, !.role = validRole]]
  /\ result' = [result EXCEPT ![p] = NoResult]
  /\ UNCHANGED <<dbVars, now, connSetting, rlsEnforced, clientTenantId, lastOp,
                 observe>>

(* a read of the callback after which it throws `error`, or goes on to *)
(* `next` with the request as `r`                                      *)
UserCheck_step(p, setting, at, next, r, error) ==
  /\ pc[p] = at
  /\ pc' = [pc EXCEPT ![p] = IF error # "none" THEN "idle" ELSE next]
  /\ req' = [req EXCEPT ![p] = IF error # "none" THEN NoReq ELSE r]
  /\ result' = [result EXCEPT ![p] =
                  IF error # "none"
                  THEN [op |-> req[p].op, tenantId |-> r.tenantId,
                        role |-> req[p].role, outcome |-> error]
                  ELSE result[p]]
  /\ lastOp' = Record([NoOp EXCEPT !.op = req[p].op, !.proc = p,
                            !.scope = req[p].scope, !.setting = setting,
                            !.inTx = TRUE,
                            !.outcome = IF error # "none" THEN error
                                        ELSE "checked"])
  /\ UNCHANGED <<dbVars, now, connSetting, rlsEnforced, clientTenantId, observe>>

(* currentUser *)
updateUserRole_findUnique(p, setting) ==
  LET cur == {u \in RlsVisible(users, setting) : u.id = req[p].userId}
  IN IF cur = {}
     THEN UserCheck_step(p, setting, "ur_find", "idle", req[p],
                         "TenantUserNotFoundError")
     ELSE LET currentUser == CHOOSE u \in cur : TRUE
          IN UserCheck_step(p, setting, "ur_find",
                            IF req[p].role = "owner" \/ currentUser.role = "owner"
                            THEN "ur_rules" ELSE "ur_update",
                            [req[p] EXCEPT !.tenantId = currentUser.tenant_id,
                                           !.currentRole = currentUser.role],
                            "none")

updateUserRole_enforceOwnershipRules(p, setting) ==
  UserCheck_step(p, setting, "ur_rules", "ur_update", req[p],
                 IF enforceOwnershipRules(RlsVisible(users, setting),
                                          req[p].userId, req[p].role,
                                          req[p].tenantId) = "ok"
                 THEN "none" ELSE "TenantBusinessRuleError")

(* tx.tenant_users.update, commit *)
updateUserRole_writes(setting, r) ==
  LET cur == {u \in RlsVisible(users, setting) : u.id = r.userId}
  IN IF cur = {}
     THEN Res("PrismaError", tenants, users, invitations, {}, NoTenant)
     ELSE Res("ok", tenants,
              (users \ cur) \cup {[u EXCEPT !.role = r.role] : u \in cur},
              invitations, TenantsOf(cur), NoTenant)

updateUserRole_update(p, setting) ==
  /\ pc[p] = "ur_update"
  /\ Commit(p, "updateUserRole", req[p].scope, setting,
            updateUserRole_writes(setting, req[p]), NoTenant)
  /\ result' = [result EXCEPT ![p] =
                  [op |-> "updateUserRole", tenantId |-> req[p].tenantId,
                   role |-> req[p].role,
                   outcome |->
                     transaction(updateUserRole_writes(setting, req[p])).outcome]]

(* ---- TenantService.createTenant and updateTenant step by step ---- *)
(* a read of the callback after which it throws `error`, or goes on *)
TenantCheck(p, setting, op, at, next, error) ==
  /\ pc[p] = at
  /\ pc' = [pc EXCEPT ![p] = IF error # "none" THEN "idle" ELSE next]
  /\ req' = [req EXCEPT ![p] = IF error # "none" THEN NoReq ELSE req[p]]
  /\ result' = [result EXCEPT ![p] =
                  IF error # "none"
                  THEN [op |-> op, tenantId |-> req[p].tenantId,
                        role |-> req[p].role, outcome |-> error]
                  ELSE result[p]]
  /\ lastOp' = Record([NoOp EXCEPT !.op = op, !.proc = p, !.setting = setting,
                            !.inTx = TRUE,
                            !.outcome = IF error # "none" THEN error
                                        ELSE "checked"])
  /\ UNCHANGED <<dbVars, now, connSetting, rlsEnforced, clientTenantId, observe>>

createTenant_call(p, slug, ownerClerkUserId, ownerEmail) ==
  /\ pc[p] = "idle"
  /\ pc' = [pc EXCEPT ![p] = "ct_find"]
  /\ req' = [req EXCEPT ![p] =
               [NoReq EXCEPT !.op = "createTenant", !.slug = slug,
                             !.clerkUserId = ownerClerkUserId,
                             !.email = ownerEmail, !.role = "owner"]]
  /\ result' = [result EXCEPT ![p] = NoResult]
  /\ UNCHANGED <<dbVars, now, connSetting, rlsEnforced, clientTenantId, lastOp,
                 observe>>

createTenant_findUnique(p, setting) ==
  TenantCheck(p, setting, "createTenant", "ct_find", "ct_create",
              IF \E t \in tenants : t.slug = req[p].slug
              THEN "TenantBusinessRuleError" ELSE "none")

(* tx.tenants.create, tx.tenant_users.create, commit *)
createTenant_writes(setting, r) ==
  LET tid == FreshId(tenants, MaxTenants)
      tenant == [id |-> tid, slug |-> r.slug, status |-> "active"]
      ownerUser == [id |-> FreshId(users, MaxUsers), tenant_id |-> tid,
                    clerk_user_id |-> r.clerkUserId, email |-> r.email,
                    role |-> "owner", status |-> "active"]
  IN IF TenantUniqueViolation(tenant, tenants)
     THEN Res("PrismaError", tenants, users, invitations, {}, NoTenant)
     ELSE IF UserUniqueViolation(ownerUser, users)
             \/ ~RlsAllowsWrite(ownerUser, setting)
     THEN Res("PrismaError", tenants \cup {tenant}, users, invitations, {},
              NoTenant)
     ELSE Res("ok", tenants \cup {tenant}, users \cup {ownerUser}, invitations,
              {tid}, tid)

createTenant_create(p, setting) ==
  /\ pc[p] = "ct_create"
  /\ Commit(p, "createTenant", NoTenant, setting,
            createTenant_writes(setting, req[p]), NoTenant)
  /\ result' = [result EXCEPT ![p] =
                  [op |-> "createTenant", tenantId |-> NoTenant,
                   role |-> "owner",
                   outcome |->
                     transaction(createTenant_writes(setting, req[p])).outcome]]

updateTenant_call(p, tenantId, validatedData) ==
  /\ pc[p] = "idle"
  /\ pc' = [pc EXCEPT ![p] = "ut_find"]
  /\ req' = [req EXCEPT ![p] =
               [NoReq EXCEPT !.op = "updateTenant", !.tenantId = tenantId,
                             !.slug = validatedData.slug,
                             !.status = validatedData.status]]
  /\ result' = [result EXCEPT ![p] = NoResult]
  /\ UNCHANGED <<dbVars, now, connSetting, rlsEnforced, clientTenantId, lastOp,
                 observe>>

(* existingTenant, slugExists *)
updateTenant_findUnique(p, setting) ==
  LET cur == {t \in tenants : t.id = req[p].tenantId}
  IN TenantCheck(p, setting, "updateTenant", "ut_find", "ut_update",
                 IF cur = {} THEN "TenantNotFoundError"
                 ELSE IF /\ \A t \in cur : t.slug # req[p].slug
                         /\ \E t \in tenants : t.slug = req[p].slug
                 THEN "TenantBusinessRuleError" ELSE "none")

(* tx.tenants.update, commit *)
updateTenant_writes(setting, r) ==
  LET cur == {t \in tenants : t.id = r.tenantId}
      rows == {[t EXCEPT !.slug = r.slug, !.status = r.status] : t \in cur}
  IN IF cur = {} \/ \E row \in rows : TenantUniqueViolation(row, tenants)
     THEN Res("PrismaError", tenants, users, invitations, {}, NoTenant)
     ELSE Res("ok", (tenants \ cur) \cup rows, users, invitations, {}, NoTenant)

updateTenant_update(p, setting) ==
  /\ pc[p] = "ut_update"
  /\ Commit(p, "updateTenant", NoTenant, setting,
            updateTenant_writes(setting, req[p]), NoTenant)
  /\ result' = [result EXCEPT ![p] =
                  [op |-> "updateTenant", tenantId |-> req[p].tenantId,
                   role |-> req[p].role,
                   outcome |->
                     transaction(updateTenant_writes(setting, req[p])).outcome]]

(* ---- TenantInvitationService.createInvitation step by step ---- *)
createInvitation_call(p, scope, data) ==
  /\ pc[p] = "idle"
  /\ pc' = [pc EXCEPT ![p] = "ci_checks"]
  /\ req' = [req EXCEPT ![p] =
               [NoReq EXCEPT !.op = "createInvitation", !.scope = scope,
                             !.tenantId = data.tenantId, !.email = data.email,
                             !.role = data.role, !.status = data.status]]
  /\ result' = [result EXCEPT ![p] = NoResult]
  /\ UNCHANGED <<dbVars, now, connSetting, rlsEnforced, clientTenantId, lastOp,
                 observe>>

(* existingInvitation, existingMember, existingOwner *)
createInvitation_checks(p, setting) ==
  LET hit ==
        \/ \E i \in RlsVisible(invitations, setting) :
             /\ i.tenant_id = req[p].tenantId /\ i.email = req[p].email
             /\ i.status = "pending"
        \/ \E u \in RlsVisible(users, setting) :
             u.tenant_id = req[p].tenantId /\ u.email = req[p].email
        \/ /\ req[p].role = "owner"
           /\ \E u \in RlsVisible(users, setting) :
                u.tenant_id = req[p].tenantId /\ u.role = "owner"
  IN /\ pc[p] = "ci_checks"
     /\ pc' = [pc EXCEPT ![p] = IF hit THEN "idle" ELSE "ci_create"]
     /\ req' = [req EXCEPT ![p] = IF hit THEN NoReq ELSE req[p]]
     /\ result' = [result EXCEPT ![p] =
                     IF hit THEN [op |-> "createInvitation",
                                  tenantId |-> req[p].tenantId,
                                  role |-> req[p].role,
                                  outcome |-> "TenantBusinessRuleError"]
                     ELSE result[p]]
     /\ lastOp' = Record([NoOp EXCEPT !.op = "createInvitation", !.proc = p,
                               !.scope = req[p].scope, !.setting = setting,
                               !.inTx = TRUE, !.touched = {req[p].tenantId},
                               !.payload = req[p].tenantId,
                               !.outcome = IF hit THEN "TenantBusinessRuleError"
                                           ELSE "checked"])
     /\ UNCHANGED <<dbVars, now, connSetting, rlsEnforced, clientTenantId,
                    observe>>

(* tx.tenant_invitations.create, commit *)
createInvitation_writes(setting, r) ==
  LET row == [id |-> FreshId(invitations, MaxInvitations),
              tenant_id |-> r.tenantId, email |-> r.email,
              role |-> r.role, status |-> r.status,
              expires_at |-> now + InvitationTtl, accepted_at |-> NoTime]
  IN IF \/ InvitationUniqueViolation(row, invitations)
        \/ ~RlsAllowsWrite(row, setting)
        \/ ~\E t \in tenants : t.id = r.tenantId
     THEN Res("PrismaError", tenants, users, invitations, {}, NoTenant)
     ELSE Res("ok", tenants, users, invitations \cup {row},
              {r.tenantId}, r.tenantId)

createInvitation_create(p, setting) ==
  /\ pc[p] = "ci_create"
  /\ Commit(p, "createInvitation", req[p].scope, setting,
            createInvitation_writes(setting, req[p]), req[p].tenantId)
  /\ result' = [result EXCEPT ![p] =
                  [op |-> "createInvitation", tenantId |-> req[p].tenantId,
                   role |-> req[p].role,
                   outcome |->
                     transaction(createInvitation_writes(setting, req[p])).outcome]]

(* ---- TenantInvitationService.acceptInvitation step by step: the      ---- *)
(* ---- statements of its transaction, each reading what is committed  ---- *)
acceptInvitation_call(p, scope, invitationId, clerkUserId) ==
  /\ pc[p] = "idle"
  /\ pc' = [pc EXCEPT ![p] = "ai_find"]
  /\ req' = [req EXCEPT ![p] =
               [NoReq EXCEPT !.op = "acceptInvitation", !.scope = scope,
                             !.invitationId = invitationId,
                             !.clerkUserId = clerkUserId]]
  /\ result' = [result EXCEPT ![p] = NoResult]
  /\ UNCHANGED <<dbVars, now, connSetting, rlsEnforced, clientTenantId, lastOp,
                 observe>>

(* a statement of the callback: on `hit` the callback throws and the *)
(* transaction, which has written nothing that stays, is rolled back  *)
InvitationCheck(p, setting, at, next, hit, found) ==
  /\ pc[p] = at
  /\ pc' = [pc EXCEPT ![p] = IF hit THEN "idle" ELSE next]
  /\ req' = [req EXCEPT ![p] = IF hit THEN NoReq ELSE found]
  /\ result' = [result EXCEPT ![p] =
                  IF hit THEN [op |-> "acceptInvitation",
                               tenantId |-> found.tenantId, role |-> found.role,
                               outcome |-> "TenantBusinessRuleError"]
                  ELSE result[p]]
  /\ lastOp' = Record([NoOp EXCEPT !.op = "acceptInvitation", !.proc = p,
                            !.scope = req[p].scope,
                            !.setting = setting, !.inTx = TRUE,
                            !.touched = {found.tenantId},
                            !.outcome = IF hit THEN "TenantBusinessRuleError"
                                        ELSE "checked"])
  /\ UNCHANGED <<dbVars, now, connSetting, rlsEnforced, clientTenantId, observe>>

acceptInvitation_findUnique(p, setting) ==
  LET cur == {i \in RlsVisible(invitations, setting) : i.id = req[p].invitationId}
      invitation == CHOOSE i \in cur : TRUE
  IN InvitationCheck(p, setting, "ai_find",
                     IF cur # {} /\ invitation.role = "owner" THEN "ai_owner_pending"
                     ELSE "ai_member",
                     \/ cur = {}
                     \/ \E i \in cur : i.status # "pending" \/ i.expires_at < now,
                     IF cur = {} THEN req[p]
                     ELSE [req[p] EXCEPT !.tenantId = invitation.tenant_id,
                                         !.email = invitation.email,
                                         !.role = invitation.role])

acceptInvitation_existingMember(p, setting) ==
  /\ pc[p] \in {"ai_member", "ai_owner_pending"}
  /\ InvitationCheck(p, setting, pc[p],
                     IF pc[p] = "ai_owner_pending" THEN "ai_owner" ELSE "ai_create",
                     \E u \in RlsVisible(users, setting) :
                        /\ u.tenant_id = req[p].tenantId
                        /\ u.clerk_user_id = req[p].clerkUserId,
                     req[p])

acceptInvitation_existingOwner(p, setting) ==
  InvitationCheck(p, setting, "ai_owner", "ai_create",
                  \E u \in RlsVisible(users, setting) :
                     u.tenant_id = req[p].tenantId /\ u.role = "owner",
                  req[p])

(* tx.tenant_users.create, tx.tenant_invitations.update, commit *)
acceptInvitation_writes(setting, r) ==
  LET cur == {i \in RlsVisible(invitations, setting) : i.id = r.invitationId}
      user == [id |-> FreshId(users, MaxUsers), tenant_id |-> r.tenantId,
               clerk_user_id |-> r.clerkUserId, email |-> r.email,
               role |-> r.role, status |-> "active"]
  IN IF \/ UserUniqueViolation(user, users)
        \/ ~RlsAllowsWrite(user, setting)
        \/ cur = {}
     THEN Res("PrismaError", tenants, users, invitations, {r.tenantId}, NoTenant)
     ELSE Res("ok", tenants, users \cup {user},
              (invitations \ cur)
                \cup {[i EXCEPT !.status = "accepted", !.accepted_at = now] :
                        i \in cur},
              {r.tenantId}, r.tenantId)

acceptInvitation_create(p, setting) ==
  /\ pc[p] = "ai_create"
  /\ Commit(p, "acceptInvitation", req[p].scope, setting,
            acceptInvitation_writes(setting, req[p]), NoTenant)
  /\ result' = [result EXCEPT ![p] =
                  [op |-> "acceptInvitation", tenantId |-> req[p].tenantId,
                   role |-> req[p].role,
                   outcome |->
                     transaction(acceptInvitation_writes(setting, req[p])).outcome]]

(* ---- set_config(name, value, is_local) issued through $executeRaw, that ---- *)
(* ---- is in a transaction of its own: a local setting ends with it      ---- *)
set_config(settings, c, value, is_local) ==
  IF is_local THEN settings ELSE [settings EXCEPT ![c] = value]

SessionWide == FALSE

(* the third argument withTenantContext passes to set_config *)
IsLocal == TRUE

(* ---- TenantAwarePrismaClient.setTenantContext: a request binds its tenant ---- *)
setTenantContext(p, cl, t) ==
  /\ pc[p] = "idle"
  /\ \E x \in tenants : x.id = t
  /\ clientTenantId' = [clientTenantId EXCEPT ![cl] = t]
  /\ req' = [req EXCEPT ![p] = [NoReq EXCEPT !.op = "bound", !.client = cl,
                                             !.scope = t]]
  /\ pc' = [pc EXCEPT ![p] = "gw_ready"]
  /\ result' = [result EXCEPT ![p] = NoResult]
  /\ UNCHANGED <<dbVars, now, connSetting, rlsEnforced, lastOp, observe>>

(* ---- a tenantUsers accessor: executeWithTenantContext, then the call of ---- *)
(* ---- withTenantContext up to its first await                            ---- *)
executeWithTenantContext(p, cl, op, data) ==
  /\ \/ pc[p] = "gw_ready" /\ cl = req[p].client
     \/ pc[p] = "idle"
  /\ IF clientTenantId[cl] = NoTenant
     THEN /\ pc' = [pc EXCEPT ![p] = "idle"]
          /\ req' = [req EXCEPT ![p] = NoReq]
          /\ result' = [result EXCEPT ![p] =
                          [NoResult EXCEPT !.op = op, !.outcome = "Error"]]
     ELSE /\ pc' = [pc EXCEPT ![p] = "wtc_set"]
          /\ req' = [req EXCEPT ![p] =
                       [req[p] EXCEPT !.op = op, !.client = cl,
                                      !.tenantId = data.tenantId,
                                      !.clerkUserId = data.clerkUserId,
                                      !.email = data.email, !.role = data.role,
                                      !.status = data.status,
                                      !.wtcArg = clientTenantId[cl]]]
          /\ result' = [result EXCEPT ![p] = NoResult]
  /\ UNCHANGED <<dbVars, now, connSetting, rlsEnforced, clientTenantId, lastOp,
                 observe>>

tenantUsers_findMany(p, cl) ==
  executeWithTenantContext(p, cl, "tenantUsers.findMany", NoReq)

tenantUsers_create(p, cl, data) ==
  executeWithTenantContext(p, cl, "tenantUsers.create", data)

(* ---- auditLogs.create and tenantSettings.create as one step: the   ---- *)
(* ---- accessor stamps the client's tenant on the row and inserts it ---- *)
(* ---- on a pooled session                                           ---- *)
ChildCreate(p, cl, setting, op, rows) ==
  LET row == [id |-> FreshId(rows, MaxChildRows), tenant_id |-> clientTenantId[cl]]
      outcome == IF clientTenantId[cl] = NoTenant THEN "Error"
                 ELSE IF \/ ~RlsAllowsWrite(row, setting)
                         \/ ~\E t \in tenants : t.id = row.tenant_id
                 THEN "PrismaError" ELSE "ok"
  IN [rows |-> IF outcome = "ok" THEN rows \cup {row} ELSE rows,
      result |-> [NoResult EXCEPT !.op = op, !.tenantId = clientTenantId[cl],
                                  !.outcome = outcome]]

ChildCall(p, cl, r) ==
  /\ pc[p] = "gw_ready" /\ cl = req[p].client
  /\ \A x \in r.rows : x.id <= MaxChildRows
  /\ result' = [result EXCEPT ![p] = r.result]
  /\ pc' = [pc EXCEPT ![p] = "idle"]
  /\ req' = [req EXCEPT ![p] = NoReq]
  /\ clientTenantId' = [clientTenantId EXCEPT ![p] = NoTenant]
  /\ UNCHANGED <<tenants, users, invitations, now, connSetting, rlsEnforced,
                 lastOp, observe>>

auditLogs_create(p, cl, setting) ==
  LET r == ChildCreate(p, cl, setting, "auditLogs.create", audit_logs)
  IN /\ ChildCall(p, cl, r)
     /\ audit_logs' = r.rows
     /\ UNCHANGED tenant_settings

tenantSettings_create(p, cl, setting) ==
  LET r == ChildCreate(p, cl, setting, "tenantSettings.create", tenant_settings)
  IN /\ ChildCall(p, cl, r)
     /\ tenant_settings' = r.rows
     /\ UNCHANGED audit_logs

(* ---- withTenantContext: the set_config before the callback ---- *)
withTenantContext_set(p, c) ==
  /\ pc[p] = "wtc_set"
  /\ connSetting' = set_config(connSetting, c, req[p].wtcArg, IsLocal)
  /\ pc' = [pc EXCEPT ![p] = "wtc_callback"]
  /\ UNCHANGED <<dbVars, now, rlsEnforced, clientTenantId, req, result, lastOp,
                 observe>>

(* ---- the callback's statement, on whichever pooled session it gets ---- *)
tenantUsersCallback(setting, r, stamp) ==
  IF r.op = "tenantUsers.findMany"
  THEN Res("ok", tenants, users, invitations,
           TenantsOf(RlsVisible(users, setting)), NoTenant)
  ELSE
    LET row == [id |-> FreshId(users, MaxUsers), tenant_id |-> stamp,
                clerk_user_id |-> r.clerkUserId, email |-> r.email,
                role |-> r.role, status |-> r.status]
    IN IF \/ UserUniqueViolation(row, users)
          \/ ~RlsAllowsWrite(row, setting)
          \/ ~\E t \in tenants : t.id = stamp
       THEN Res("PrismaError", tenants, users, invitations, {}, NoTenant)
       ELSE Res("ok", tenants, users \cup {row}, invitations, {stamp}, stamp)

withTenantContext_callback(p, c) ==
  /\ pc[p] = "wtc_callback"
  /\ LET r == tenantUsersCallback(connSetting[c], req[p],
                                  clientTenantId[req[p].client])
     IN /\ WithinBounds(r)
        /\ users' = r.users
        /\ req' = [req EXCEPT ![p].cbOutcome = r.outcome]
        /\ lastOp' = Record([NoOp EXCEPT !.op = req[p].op, !.proc = p,
                                  !.scope = req[p].scope,
                                  !.wtcArg = req[p].wtcArg,
                                  !.setting = connSetting[c],
                                  !.touched = r.touched, !.created = r.created,
                                  !.payload = req[p].tenantId,
                                  !.outcome = r.outcome])
  /\ pc' = [pc EXCEPT ![p] = "wtc_finally"]
  /\ UNCHANGED <<tenants, invitations, audit_logs, tenant_settings, now,
                 connSetting, rlsEnforced, clientTenantId, result, observe>>

(* ---- withTenantContext: the finally block, then the return or rethrow ---- *)
withTenantContext_finally(p, c) ==
  /\ pc[p] = "wtc_finally"
  /\ connSetting' = set_config(connSetting, c, NoTenant, IsLocal)
  /\ result' = [result EXCEPT ![p] =
                  [NoResult EXCEPT !.op = req[p].op, !.tenantId = req[p].scope,
                                   !.outcome = req[p].cbOutcome]]
  /\ pc' = [pc EXCEPT ![p] = "idle"]
  /\ req' = [req EXCEPT ![p] = NoReq]
  /\ clientTenantId' = [clientTenantId EXCEPT ![p] = NoTenant]
  /\ UNCHANGED <<dbVars, now, rlsEnforced, lastOp, observe>>

(* ---- route.ts: handleApiError ---- *)
getTenantErrorStatusCode_conflictAsBadRequest(error) ==
  IF error \in {"TenantValidationError", "TenantBusinessRuleError"} THEN 400
  ELSE IF error \in {"TenantNotFoundError", "TenantUserNotFoundError"} THEN 404
  ELSE IF error = "TenantPermissionError" THEN 403
  ELSE 500

getTenantErrorStatusCode(error) ==
  IF error = "TenantValidationError" THEN 400
  ELSE IF error \in {"TenantNotFoundError", "TenantUserNotFoundError"} THEN 404
  ELSE IF error = "TenantPermissionError" THEN 403
  ELSE IF error = "TenantBusinessRuleError" THEN 409
  ELSE IF error = "TenantContextError" THEN 500
  ELSE 500

isTenantError(error) ==
  error \in {"TenantBusinessRuleError", "TenantValidationError",
             "TenantNotFoundError", "TenantUserNotFoundError",
             "TenantPermissionError", "TenantContextError"}

handleApiError(error) ==
  IF error = "ZodError" THEN 400
  ELSE IF isTenantError(error) THEN getTenantErrorStatusCode(error)
  ELSE 500

NoUser == "none"

getTenantBySlug(slug) == {t \in tenants : t.slug = slug}

(* ---- middleware/tenant.ts ---- *)
(* String.prototype.split on a string given as its tokens: separators and *)
(* the names between them                                                  *)
RECURSIVE Split(_, _)
Split(tokens, sep) ==
  IF tokens = <<>> THEN <<"">>
  ELSE IF Head(tokens) = sep THEN <<"">> \o Split(Tail(tokens), sep)
  ELSE <<Head(tokens)>> \o Tail(Split(Tail(tokens), sep))

(* String.prototype.includes on a message given as its words *)
Includes(message, phrase) ==
  \E i \in 1..Len(message) :
    /\ i + Len(phrase) - 1 <= Len(message)
    /\ SubSeq(message, i, i + Len(phrase) - 1) = phrase

DEFAULT_OPTIONS ==
  [required |-> TRUE, extractFrom |-> "header", fallbackTenantSlug |-> {"default"}]

(* { ...DEFAULT_OPTIONS, ...options }: a key that is given, be it as *)
(* undefined, replaces the default                                   *)
MergeOptions(options) ==
  [required |-> IF options.required = "absent" THEN DEFAULT_OPTIONS.required
                ELSE options.required = "true",
   extractFrom |-> IF options.extractFrom = "absent"
                   THEN DEFAULT_OPTIONS.extractFrom ELSE options.extractFrom,
   fallbackTenantSlug |-> IF options.fallback.given THEN options.fallback.value
                          ELSE DEFAULT_OPTIONS.fallbackTenantSlug]

extractTenantSlug(request, opts) ==
  CASE opts.extractFrom = "header" ->
         IF Truthy(request.header) THEN request.header ELSE Null
    [] opts.extractFrom = "subdomain" ->
         IF request.host # <<>>
         THEN LET subdomain == Split(request.host, ".")[1]
              IN IF subdomain # "www" /\ subdomain # "localhost"
                 THEN {subdomain} ELSE Null
         ELSE Null
    [] opts.extractFrom = "query" ->
         IF Truthy(request.query) THEN request.query ELSE Null
    [] opts.extractFrom = "path" ->
         LET pathSegments == Split(request.pathname, "/")
         IN IF Len(pathSegments) >= 2 /\ pathSegments[2] # ""
            THEN {pathSegments[2]} ELSE Null
    [] OTHER -> Null

getRolePermissions(role) ==
  IF role = "admin"
  THEN {"tenant:read", "tenant:update", "tenant:delete", "user:read",
        "user:create", "user:update", "user:delete", "invitation:create",
        "invitation:delete", "settings:read", "settings:update", "audit:read"}
  ELSE IF role = "user" THEN {"tenant:read", "user:read", "settings:read"}
  ELSE IF role = "viewer" THEN {"tenant:read", "user:read"}
  ELSE {}

(* line 89: the fallback replaces a missing slug *)
FallbackApplies_unlessGiven(tenantSlug, opts) ==
  ~Truthy(tenantSlug) /\ Truthy(opts.fallbackTenantSlug)

FallbackApplies(tenantSlug, opts) ==
  ~Truthy(tenantSlug) /\ ~opts.required /\ Truthy(opts.fallbackTenantSlug)

ContextOf(opts, extracted, useFallback, slug, error, outcome, lookups, role) ==
  [outcome |-> outcome, error |-> error, extracted |-> extracted,
   required |-> opts.required, fallback |-> opts.fallbackTenantSlug,
   fallbackUsed |-> useFallback, slug |-> slug, lookups |-> lookups,
   role |-> role,
   permissions |-> UNION {getRolePermissions(r) : r \in role}]

(* prisma is "client", or "placeholder" for the {} of withTenantContext, *)
(* whose tenants property is undefined                                   *)
getTenantContext(request, prisma, setting, options, userId) ==
  LET opts == MergeOptions(options)
      extracted == extractTenantSlug(request, opts)
      useFallback == FallbackApplies(extracted, opts)
      tenantSlug == IF useFallback THEN opts.fallbackTenantSlug ELSE extracted
      tenant == {t \in tenants : {t.slug} = tenantSlug}
      tenantUser == {u \in RlsVisible(users, setting) :
                       /\ \E t \in tenant : u.tenant_id = t.id
                       /\ u.clerk_user_id = userId}
      Ctx(error, outcome, lookups, role) ==
        ContextOf(opts, extracted, useFallback, tenantSlug, error, outcome,
                  lookups, role)
  IN IF ~Truthy(tenantSlug) /\ opts.required
     THEN Ctx("Error", <<"Tenant", "context", "is", "required", "but", "not",
                         "provided">>, <<>>, Null)
     ELSE IF ~Truthy(tenantSlug) THEN Ctx("none", <<"null">>, <<>>, Null)
     ELSE IF prisma = "placeholder"
     THEN Ctx("TypeError", <<"Cannot", "read", "properties", "of", "undefined">>,
              <<>>, Null)
     ELSE IF tenant = {}
     THEN Ctx("Error", <<"Tenant", "not", "found", ":">>, <<"tenants">>, Null)
     ELSE IF userId = NoUser
     THEN Ctx("Error", <<"User", "authentication", "required">>, <<"tenants">>,
              Null)
     ELSE IF tenantUser = {}
     THEN Ctx("Error", <<"User", "not", "found", "in", "tenant", ":">>,
              <<"tenants", "tenant_users">>, Null)
     ELSE Ctx("none", <<"TenantContext">>, <<"tenants", "tenant_users">>,
              {u.role : u \in tenantUser})

checkPermission(context, permission) == permission \in context.permissions

(* the message of the Error that requirePermission throws, <<>> if none *)
requirePermission(context, permission) ==
  IF ~checkPermission(context, permission)
  THEN <<"Insufficient", "permissions", ":", permission>>
  ELSE <<>>

(* the catch block of withTenantContext *)
MiddlewareErrorStatus(message) ==
  IF Includes(message, <<"not", "found">>) THEN 404
  ELSE IF Includes(message, <<"required">>) THEN 400
  ELSE IF Includes(message, <<"authentication">>) THEN 401
  ELSE 500

Operation(op, p, setting, userId, context, permission, thrown, status) ==
  /\ pc[p] = "idle"
  /\ lastOp' = Record([NoOp EXCEPT !.op = op, !.proc = p,
                            !.setting = setting, !.caller = userId,
                            !.ctx = context, !.permission = permission,
                            !.thrown = thrown, !.status = status])
  /\ result' = [result EXCEPT ![p] =
                  [NoResult EXCEPT !.op = op, !.outcome = status]]
  /\ UNCHANGED <<dbVars, now, connSetting, rlsEnforced, clientTenantId, pc,
                 req, observe>>

MiddlewareResponse(p, prisma, setting, userId, context, permission, invoked, thrown, status) ==
  /\ pc[p] = "idle"
  /\ lastOp' = Record([NoOp EXCEPT !.op = "withTenant", !.proc = p,
                            !.setting = setting, !.caller = userId,
                            !.ctx = context, !.permission = permission,
                            !.prisma = prisma, !.handler = invoked,
                            !.thrown = thrown, !.status = status])
  /\ result' = [result EXCEPT ![p] =
                  [NoResult EXCEPT !.op = "withTenant", !.outcome = status]]
  /\ UNCHANGED <<dbVars, now, connSetting, rlsEnforced, clientTenantId, pc,
                 req, observe>>

(* the function withTenantContext(handler, options) returns, the        *)
(* handler being                                                        *)
(*   async (request, { tenant }) => { requirePermission(tenant, permission); *)
(*                                    return new Response(null, { status: 200 }) } *)
(* The handler's promise is returned without await: its rejection       *)
(* passes the catch block and the framework answers 500.                *)
withTenantContext_handler(p, prisma, setting, request, options, userId, permission) ==
  LET context == getTenantContext(request, prisma, setting, options, userId)
      thrown == requirePermission(context, permission)
      Response(invoked, message, status) ==
        MiddlewareResponse(p, prisma, setting, userId, context, permission,
                           invoked, message, status)
  IN IF context.error # "none"
     THEN Response(FALSE, <<>>, MiddlewareErrorStatus(context.outcome))
     ELSE IF context.outcome = <<"null">>
     THEN IF options.required # "false"
          THEN Response(FALSE, <<>>, 400)
          ELSE Response(TRUE, <<"Cannot", "read", "properties", "of", "null">>,
                        500)
     ELSE IF thrown # <<>> THEN Response(TRUE, thrown, 500)
     ELSE Response(TRUE, <<>>, 200)

(* line 206: const prisma = {} as SimplePrismaClient *)
withTenant(p, setting, request, options, userId, permission) ==
  withTenantContext_handler(p, "placeholder", setting, request, options,
                            userId, permission)

(* a route handler that resolves the tenant context with the client,   *)
(* requires `permission`, and hands what is thrown to handleApiError   *)
getTenantContext_call(p, setting, request, options, userId, permission) ==
  LET context == getTenantContext(request, "client", setting, options, userId)
      thrown == requirePermission(context, permission)
  IN IF context.error # "none"
     THEN Operation("getTenantContext", p, setting, userId, context,
                    permission, <<>>, handleApiError(context.error))
     ELSE IF context.outcome = <<"null">>
     THEN Operation("getTenantContext", p, setting, userId, context,
                    permission, <<>>, 200)
     ELSE IF thrown # <<>>
     THEN Operation("getTenantContext", p, setting, userId, context,
                    permission, thrown, handleApiError("Error"))
     ELSE Operation("getTenantContext", p, setting, userId, context,
                    permission, <<>>, 200)

(* an error of each class, thrown in a route and caught by its catch block *)
handleApiError_call(p, error) ==
  /\ pc[p] = "idle"
  /\ lastOp' = Record([NoOp EXCEPT !.op = "handleApiError", !.proc = p,
                            !.outcome = error,
                            !.status = handleApiError(error)])
  /\ result' = [result EXCEPT ![p] =
                  [NoResult EXCEPT !.op = "handleApiError",
                                   !.outcome = handleApiError(error)]]
  /\ UNCHANGED <<dbVars, now, connSetting, rlsEnforced, clientTenantId, pc,
                 req, observe>>

(* ---- client.ts: the accessors and the methods each one overrides; ---- *)
(* ---- `...originalMethods` hands every other method of the delegate ---- *)
(* ---- through as it is                                              ---- *)
ScopedAccessors ==
  {"tenantUsers", "tenantInvitations", "auditLogs", "tenantSettings"}

Overridden(accessor) ==
  CASE accessor = "tenantUsers" ->
         {"findMany", "findFirst", "findUnique", "create", "update", "delete",
          "upsert", "count"}
    [] accessor = "tenantInvitations" ->
         {"findMany", "findFirst", "findUnique", "create", "update", "delete",
          "count"}
    [] accessor = "auditLogs" -> {"findMany", "findFirst", "create", "count"}
    [] accessor = "tenantSettings" ->
         {"findMany", "findFirst", "findUnique", "create", "update", "delete",
          "upsert", "count"}
    [] OTHER -> {}

(* methods of a Prisma model delegate *)
DelegateMethods ==
  {"findMany", "findFirst", "findUnique", "create", "update", "delete",
   "upsert", "count", "deleteMany"}

(* one call of prisma.<accessor>.<method>, until it throws or its *)
(* statement is sent                                               *)
accessor_call(p, cl, accessor, method) ==
  LET guarded == method \in Overridden(accessor)
      thrown == guarded /\ clientTenantId[cl] = NoTenant
  IN /\ \/ pc[p] = "gw_ready" /\ cl = req[p].client
        \/ pc[p] = "idle"
     /\ lastOp' = Record([NoOp EXCEPT
                            !.op = "accessor", !.proc = p,
                            !.accessor = accessor, !.method = method,
                            !.wtcArg = clientTenantId[cl],
                            !.reached = ~thrown,
                            !.outcome = IF thrown THEN "Error" ELSE "sent",
                            !.status = IF thrown THEN handleApiError("Error")
                                       ELSE 0])
     /\ result' = [result EXCEPT ![p] =
                     [NoResult EXCEPT !.op = "accessor",
                                      !.outcome = IF thrown THEN "Error"
                                                  ELSE "sent"]]
     /\ pc' = [pc EXCEPT ![p] = "idle"]
     /\ req' = [req EXCEPT ![p] = NoReq]
     /\ clientTenantId' = [clientTenantId EXCEPT ![p] = NoTenant]
     /\ UNCHANGED <<dbVars, now, connSetting, rlsEnforced, observe>>

(* ---- a call of getPendingInvitationsByTenant and what it returns ---- *)
getPendingInvitationsByTenant_call(p, setting, tenantId) ==
  /\ pc[p] = "idle"
  /\ lastOp' = Record([NoOp EXCEPT
                         !.op = "getPendingInvitationsByTenant", !.proc = p,
                         !.setting = setting, !.payload = tenantId,
                         !.reported =
                           {i.id : i \in getPendingInvitationsByTenant(setting,
                                                                       tenantId)},
                         !.at = now, !.outcome = "ok"])
  /\ result' = [result EXCEPT ![p] =
                  [NoResult EXCEPT !.op = "getPendingInvitationsByTenant",
                                   !.tenantId = tenantId, !.outcome = "ok"]]
  /\ UNCHANGED <<dbVars, now, connSetting, rlsEnforced, clientTenantId, pc,
                 req, observe>>

(* ---- route.ts: one request to /api/tenants/[slug]/users ---- *)
Respond(p, op, caller, scope, tenantId, isMember, setting, status, r) ==
  /\ WithinBounds(r)
  /\ tenants' = r.tenants
  /\ users' = r.users
  /\ invitations' = r.invitations
  /\ UNCHANGED <<audit_logs, tenant_settings>>
  /\ result' = [result EXCEPT ![p] =
                  [NoResult EXCEPT !.op = op, !.tenantId = tenantId,
                                   !.outcome = status]]
  /\ lastOp' = Record([NoOp EXCEPT !.op = op, !.proc = p, !.caller = caller,
                            !.callerIsMember = isMember,
                            !.scope = scope, !.payload = tenantId,
                            !.setting = setting,
                            !.touched = r.touched, !.created = r.created,
                            !.outcome = status])
  /\ UNCHANGED <<now, connSetting, rlsEnforced, clientTenantId, pc, req, observe>>

Untouched == Res("none", tenants, users, invitations, {}, NoTenant)

IsMember(caller, tenantId) ==
  \E u \in users : u.tenant_id = tenantId /\ u.clerk_user_id = caller

GET(p, caller, slug, setting) ==
  /\ pc[p] = "idle"
  /\ IF caller = NoUser
     THEN Respond(p, "GET", caller, NoTenant, NoTenant, FALSE, setting, 401, Untouched)
     ELSE IF getTenantBySlug(slug) = {}
     THEN Respond(p, "GET", caller, NoTenant, NoTenant, FALSE, setting,
                  handleApiError("TenantNotFoundError"), Untouched)
     ELSE LET tenant == CHOOSE t \in getTenantBySlug(slug) : TRUE
              found == {u \in RlsVisible(users, setting) : u.tenant_id = tenant.id}
          IN Respond(p, "GET", caller, NoTenant, tenant.id, IsMember(caller, tenant.id),
                     setting, 200,
                     Res("ok", tenants, users, invitations, TenantsOf(found),
                         NoTenant))

POST(p, caller, slug, body, setting) ==
  /\ pc[p] = "idle"
  /\ IF caller = NoUser
     THEN Respond(p, "POST", caller, NoTenant, NoTenant, FALSE, setting, 401, Untouched)
     ELSE IF getTenantBySlug(slug) = {}
     THEN Respond(p, "POST", caller, NoTenant, NoTenant, FALSE, setting,
                  handleApiError("TenantNotFoundError"), Untouched)
     ELSE LET tenant == CHOOSE t \in getTenantBySlug(slug) : TRUE
              data == [body EXCEPT !.tenantId = tenant.id, !.status = "active"]
              r == createUserCall(setting, data)
          IN Respond(p, "POST", caller, tenant.id, tenant.id, IsMember(caller, tenant.id),
                     setting,
                     IF r.outcome = "ok" THEN 201 ELSE handleApiError(r.outcome),
                     r)

(* ---- time passes, in strides of the invitation lifetime ---- *)
Tick ==
  /\ now + InvitationTtl <= MaxTicks * InvitationTtl
  /\ now' = now + InvitationTtl
  /\ UNCHANGED <<dbVars, connSetting, rlsEnforced, clientTenantId, pc, req,
                 result, lastOp, observe>>

(* ---- inputs ---- *)
UserData ==
  [tenantId : TenantIds, clerkUserId : Identities, email : Emails,
   role : InputRoles, status : InputStatuses]

InvitationData ==
  [tenantId : TenantIds, email : Emails, role : InputRoles,
   status : {"pending", "accepted"}]

TenantData == [slug : Slugs, status : TenantStatusEnum]

(* ---- the sessions a transaction can be given by the pool ---- *)
PooledSettings == {connSetting[c] : c \in Connections}

(* ---- the tenant context of the client a service was constructed with ---- *)
Scopes == IF observe THEN {t.id : t \in tenants} ELSE {NoTenant}

(* ---- the service layer, one request at a time ---- *)
SeqProcs == {1}

CreateTenant ==
  \E p \in SeqProcs, setting \in PooledSettings, slug \in Slugs,
     who \in Identities, e \in Emails :
    createTenant(p, setting, slug, who, e)

CreateUser ==
  \E p \in SeqProcs, setting \in PooledSettings, scope \in Scopes, d \in UserData :
    createUser(p, scope, setting, d)

UpdateUserRole ==
  \E p \in SeqProcs, setting \in PooledSettings, scope \in Scopes,
     id \in 1..MaxUsers, r \in InputRoles :
    updateUserRole(p, scope, setting, id, r)

UpdateUserStatus ==
  \E p \in SeqProcs, setting \in PooledSettings, scope \in Scopes,
     id \in 1..MaxUsers, st \in TenantStatusEnum :
    updateUserStatus(p, scope, setting, id, st)

DeleteUser ==
  \E p \in SeqProcs, setting \in PooledSettings, scope \in Scopes,
     id \in 1..MaxUsers :
    deleteUser(p, scope, setting, id)

CreateInvitation ==
  \E p \in SeqProcs, setting \in PooledSettings, scope \in Scopes,
     d \in InvitationData :
    createInvitation(p, scope, setting, d)

AcceptInvitation ==
  \E p \in SeqProcs, setting \in PooledSettings, scope \in Scopes,
     id \in 1..MaxInvitations, who \in Identities :
    acceptInvitation(p, scope, setting, id, who)

Next ==
  \/ CreateTenant
  \/ CreateUser
  \/ UpdateUserRole
  \/ UpdateUserStatus
  \/ DeleteUser

Init == InitWith(TRUE)

Spec == Init /\ [][Next]_vars

(* ---- the business rules alone, history not recorded ---- *)
RuleInit == InitWith(FALSE)

UserRuleSpec == RuleInit /\ [][Next]_vars

(* the rules of memberships are looked at with one invitation issued *)
CreateFirstInvitation == invitations = {} /\ CreateInvitation

RuleNext ==
  \/ CreateTenant
  \/ CreateUser
  \/ UpdateUserRole
  \/ UpdateUserStatus
  \/ DeleteUser
  \/ CreateFirstInvitation
  \/ AcceptInvitation

RuleSpec == RuleInit /\ [][RuleNext]_vars

(* ---- two requests calling createUser concurrently ---- *)
ConcUserData ==
  [tenantId : {DefaultTenantId}, clerkUserId : Identities, email : Emails,
   role : {"owner", "member"}, status : {"active"}]

ConcCreateUser ==
  \E p \in Procs, d \in ConcUserData : createUser_call(p, d.tenantId, d)

OwnerCheck ==
  \E p \in Procs, setting \in PooledSettings : enforceBusinessRules_owner(p, setting)

UserCheck ==
  \E p \in Procs, setting \in PooledSettings : enforceBusinessRules_user(p, setting)

EmailCheck ==
  \E p \in Procs, setting \in PooledSettings : enforceBusinessRules_email(p, setting)

CreateUserTransaction ==
  \E p \in Procs, setting \in PooledSettings : createUser_transaction(p, setting)

ConcDeleteUser ==
  \E p \in Procs, setting \in PooledSettings, id \in 1..MaxUsers :
    /\ deleteUser(p, DefaultTenantId, setting, id)

ConcNext ==
  \/ ConcCreateUser
  \/ OwnerCheck
  \/ UserCheck
  \/ EmailCheck
  \/ CreateUserTransaction
  \/ ConcDeleteUser

ConcSpec == Init /\ [][ConcNext]_vars

(* ---- requests going through the tenant-scoped accessors of the client ---- *)
GatewayInputs ==
  {[NoReq EXCEPT !.clerkUserId = who, !.email = "b@acme.com",
                 !.role = "member", !.status = "active"] : who \in Identities}

OwnClients(p) == {GlobalClient, p}

GatewayCreateTenant ==
  \E setting \in PooledSettings :
    /\ \A q \in Procs : pc[q] = "idle"
    /\ createTenant(1, setting, "acme", "ext_1", "a@acme.com")

SetTenantContext ==
  \E p \in Procs, t \in TenantIds : \E cl \in OwnClients(p) : setTenantContext(p, cl, t)

FindMany ==
  \E p \in Procs : \E cl \in OwnClients(p) : tenantUsers_findMany(p, cl)

Create ==
  \E p \in Procs, d \in GatewayInputs : \E cl \in OwnClients(p) :
    tenantUsers_create(p, cl, d)

WithTenantContextSet ==
  \E p \in Procs, c \in Connections : withTenantContext_set(p, c)

WithTenantContextCallback ==
  \E p \in Procs, c \in Connections : withTenantContext_callback(p, c)

WithTenantContextFinally ==
  \E p \in Procs, c \in Connections : withTenantContext_finally(p, c)

GatewayNext ==
  \/ GatewayCreateTenant
  \/ SetTenantContext
  \/ FindMany
  \/ Create
  \/ WithTenantContextSet
  \/ WithTenantContextCallback
  \/ WithTenantContextFinally

GatewaySpec == Init /\ [][GatewayNext]_vars

(* ---- requests to the tenant memberships route ---- *)
Callers == Identities \cup {NoUser}

RouteBodies ==
  {d \in UserData : d.tenantId = DefaultTenantId /\ d.status = "active"}

RouteGET ==
  \E p \in SeqProcs, setting \in PooledSettings, caller \in Callers,
     slug \in Slugs :
    GET(p, caller, slug, setting)

RoutePOST ==
  \E p \in SeqProcs, setting \in PooledSettings, caller \in Callers,
     slug \in Slugs, body \in RouteBodies :
    POST(p, caller, slug, body, setting)

RouteNext ==
  \/ CreateTenant
  \/ RouteGET
  \/ RoutePOST

RouteSpec == Init /\ [][RouteNext]_vars

(* ---- the life of an invitation, one request at a time ---- *)
RevokeInvitation ==
  \E p \in SeqProcs, setting \in PooledSettings, scope \in Scopes,
     id \in 1..MaxInvitations :
    revokeInvitation(p, scope, setting, id)

CleanupExpiredInvitations ==
  \E p \in SeqProcs, setting \in PooledSettings, scope \in Scopes :
    cleanupExpiredInvitations(p, scope, setting)

InvitationNext ==
  \/ CreateFirstInvitation
  \/ AcceptInvitation
  \/ RevokeInvitation
  \/ CleanupExpiredInvitations
  \/ Tick

InvitationSpec == Init /\ [][InvitationNext]_vars

(* ---- calls on the accessors of a client, bound to a tenant or not ---- *)
AccessorCall ==
  \E p \in Procs, accessor \in ScopedAccessors \cup {"tenants"},
     method \in DelegateMethods : \E cl \in OwnClients(p) :
    accessor_call(p, cl, accessor, method)

AccessorNext ==
  \/ GatewayCreateTenant
  \/ SetTenantContext
  \/ AccessorCall

AccessorSpec == Init /\ [][AccessorNext]_vars

(* ---- invitations accepted and listed as time passes ---- *)
GetPendingInvitationsByTenant ==
  \E p \in SeqProcs, setting \in PooledSettings, tenantId \in TenantIds :
    getPendingInvitationsByTenant_call(p, setting, tenantId)

ExpiryNext ==
  \/ CreateFirstInvitation
  \/ AcceptInvitation
  \/ CleanupExpiredInvitations
  \/ GetPendingInvitationsByTenant
  \/ Tick

ExpirySpec == Init /\ [][ExpiryNext]_vars

(* ---- a role change, statement by statement, beside other requests ---- *)
GovernanceUserData ==
  {[tenantId |-> DefaultTenantId, clerkUserId |-> "ext_1",
    email |-> "a@acme.com", role |-> "owner", status |-> "active"],
   [tenantId |-> DefaultTenantId, clerkUserId |-> "ext_2",
    email |-> "b@acme.com", role |-> "admin", status |-> "active"]}

CreateGovernanceUser ==
  \E setting \in PooledSettings, d \in GovernanceUserData :
    /\ \A q \in Procs : pc[q] = "idle"
    /\ createUser(1, d.tenantId, setting, d)

UpdateUserRoleCall ==
  \E p \in Procs, id \in 1..MaxUsers, r \in {"admin", "member"} :
    updateUserRole_call(p, DefaultTenantId, id, r)

UpdateUserRoleFindUnique ==
  \E p \in Procs, setting \in PooledSettings :
    updateUserRole_findUnique(p, setting)

UpdateUserRoleRules ==
  \E p \in Procs, setting \in PooledSettings :
    updateUserRole_enforceOwnershipRules(p, setting)

UpdateUserRoleUpdate ==
  \E p \in Procs, setting \in PooledSettings :
    updateUserRole_update(p, setting)

DemotionNext ==
  \/ CreateGovernanceUser
  \/ UpdateUserRoleCall
  \/ UpdateUserRoleFindUnique
  \/ UpdateUserRoleRules
  \/ UpdateUserRoleUpdate
  \/ ConcDeleteUser

DemotionSpec == RuleInit /\ [][DemotionNext]_vars

(* ---- requests through the tenant middleware ---- *)
Requests ==
  {[header |-> {"default"}, host |-> <<"default", ".", "example", ".", "com">>,
    query |-> {"default"}, pathname |-> <<"/", "default", "/", "users">>],
   [header |-> {"ghost"}, host |-> <<"ghost", ".", "example", ".", "com">>,
    query |-> {"ghost"}, pathname |-> <<"/", "ghost">>],
   [header |-> Null, host |-> <<"www", ".", "example", ".", "com">>,
    query |-> Null, pathname |-> <<"/">>],
   [header |-> {""}, host |-> <<"localhost">>,
    query |-> {""}, pathname |-> <<"/", "/", "users">>],
   [header |-> Null, host |-> <<>>, query |-> Null, pathname |-> <<>>]}

MiddlewareOptions ==
  LET Options(required, extractFrom, fallback) ==
        [required |-> required, extractFrom |-> extractFrom,
         fallback |-> fallback]
      Absent == [given |-> FALSE, value |-> Null]
      Given(v) == [given |-> TRUE, value |-> v]
  IN {Options("absent", "absent", Absent)}
     \cup {Options("false", e, Absent) :
             e \in {"header", "subdomain", "query", "path", "cookie"}}
     \cup {Options("false", "header", Given(v)) : v \in {Null, {""}, {"ghost"}}}
     \cup {Options("true", "query", Given({"ghost"})),
           Options("absent", "path", Given(Null))}

Permissions == {"tenant:read", "user:create"}

RoleUserData ==
  [tenantId : {DefaultTenantId}, clerkUserId : {"ext_1"}, email : {"a@acme.com"},
   role : TenantRoleEnum, status : {"active"}]

CreateRoleUser ==
  \E p \in SeqProcs, setting \in PooledSettings, d \in RoleUserData :
    createUser(p, d.tenantId, setting, d)

ErrorClasses ==
  {"ZodError", "TenantValidationError", "TenantNotFoundError",
   "TenantUserNotFoundError", "TenantPermissionError",
   "TenantBusinessRuleError", "TenantContextError", "Error", "TypeError",
   "PrismaError"}

WithTenant ==
  \E p \in SeqProcs, setting \in PooledSettings, request \in Requests,
     options \in MiddlewareOptions, userId \in {"ext_1", NoUser},
     permission \in Permissions :
    withTenant(p, setting, request, options, userId, permission)

(* the middleware once a client is injected, as line 205 announces *)
WithTenantInjected ==
  \E p \in SeqProcs, setting \in PooledSettings, request \in Requests,
     options \in MiddlewareOptions, userId \in {"ext_1", NoUser},
     permission \in Permissions :
    withTenantContext_handler(p, "client", setting, request, options, userId,
                              permission)

GetTenantContext ==
  \E p \in SeqProcs, setting \in PooledSettings, request \in Requests,
     options \in MiddlewareOptions, userId \in {"ext_1", NoUser},
     permission \in Permissions :
    getTenantContext_call(p, setting, request, options, userId, permission)

HandleApiError ==
  \E p \in SeqProcs, error \in ErrorClasses :
    handleApiError_call(p, error)

MiddlewareNext ==
  \/ CreateRoleUser
  \/ DeleteUser
  \/ WithTenant
  \/ WithTenantInjected
  \/ GetTenantContext
  \/ HandleApiError

MiddlewareSpec == Init /\ [][MiddlewareNext]_vars

(* ---- tenants deleted, with and without rows that reference them ---- *)
DeleteTenant ==
  \E p \in SeqProcs, setting \in PooledSettings, id \in TenantIds :
    deleteTenant(p, setting, id)

BindTenant ==
  \E p \in SeqProcs, t \in TenantIds : setTenantContext(p, p, t)

AuditLogsCreate ==
  \E p \in SeqProcs, setting \in PooledSettings : auditLogs_create(p, p, setting)

TenantSettingsCreate ==
  \E p \in SeqProcs, setting \in PooledSettings :
    tenantSettings_create(p, p, setting)

CreateDefaultUser ==
  \E p \in SeqProcs, setting \in PooledSettings, d \in ConcUserData :
    createUser(p, d.tenantId, setting, d)

DeleteNext ==
  \/ CreateTenant
  \/ CreateDefaultUser
  \/ DeleteUser
  \/ CreateFirstInvitation
  \/ BindTenant
  \/ AuditLogsCreate
  \/ TenantSettingsCreate
  \/ DeleteTenant

DeleteSpec == Init /\ [][DeleteNext]_vars

(* ---- membership operations on ids that exist and ids that do not, ---- *)
(* ---- with values inside and outside the enums                      ---- *)
RoleInputs == TenantRoleEnum \cup {"superuser"}

StatusInputs == TenantStatusEnum \cup {"deleted"}

UpdateUserRoleUnknown ==
  \E p \in SeqProcs, setting \in PooledSettings, scope \in Scopes,
     id \in 1..MaxUsers, r \in RoleInputs :
    updateUserRole_unknown(p, scope, setting, id, r)

UpdateUserStatusUnknown ==
  \E p \in SeqProcs, setting \in PooledSettings, scope \in Scopes,
     id \in 1..MaxUsers, st \in StatusInputs :
    updateUserStatus_unknown(p, scope, setting, id, st)

MembershipNext ==
  \/ CreateDefaultUser
  \/ UpdateUserRoleUnknown
  \/ UpdateUserStatusUnknown
  \/ DeleteUser

MembershipSpec == Init /\ [][MembershipNext]_vars

(* ---- validateTenant: TenantSchema.parse, slug and name required, ---- *)
(* ---- status defaulting to "active"                              ---- *)
validateTenant(data) ==
  IF data.slug = Null \/ data.name = Null
  THEN [error |-> "ZodError", slug |-> "", status |-> ""]
  ELSE [error |-> "",
        slug |-> CHOOSE v \in data.slug : TRUE,
        status |-> IF data.status = Null THEN "active"
                   ELSE CHOOSE v \in data.status : TRUE]

(* ---- TenantService.updateTenant from its unvalidated argument ---- *)
updateTenant_unknown(p, setting, tenantId, updateData) ==
  LET validatedData == validateTenant(updateData)
  IN IF validatedData.error # ""
     THEN Throw(p, "updateTenant", NoTenant, setting, validatedData.error)
     ELSE updateTenant(p, setting, tenantId, validatedData)

(* ---- update data with each field supplied or left out ---- *)
UpdateTenantInputs ==
  [slug : {Null} \cup {{v} : v \in Slugs},
   name : {Null, {"Acme"}},
   status : {Null} \cup {{v} : v \in TenantStatusEnum}]

UpdateTenantUnknown ==
  \E p \in SeqProcs, setting \in PooledSettings, id \in TenantIds,
     d \in UpdateTenantInputs :
    updateTenant_unknown(p, setting, id, d)

PartialUpdateNext ==
  \/ CreateTenant
  \/ UpdateTenantUnknown

PartialUpdateSpec == Init /\ [][PartialUpdateNext]_vars

(* ---- middleware/tenant.ts validateTenantAccess: the membership found, ---- *)
(* ---- none for null                                                    ---- *)
validateTenantAccess(tenantId, clerkUserId, setting) ==
  {u \in RlsVisible(users, setting) :
     /\ u.tenant_id = tenantId
     /\ u.clerk_user_id = clerkUserId
     /\ u.status = "active"}

validateTenantAccess_call(p, setting, tenantId, clerkUserId) ==
  /\ pc[p] = "idle"
  /\ lastOp' = Record([NoOp EXCEPT
                         !.op = "validateTenantAccess", !.proc = p,
                         !.setting = setting, !.caller = clerkUserId,
                         !.payload = tenantId,
                         !.outcome =
                           IF validateTenantAccess(tenantId, clerkUserId,
                                                   setting) = {}
                           THEN "null" ELSE "TenantUser"])
  /\ UNCHANGED <<dbVars, now, connSetting, rlsEnforced, clientTenantId, pc,
                 req, result, observe>>

(* ---- memberships of every status asking for a tenant context ---- *)
AccessUserData ==
  [tenantId : {DefaultTenantId}, clerkUserId : {"ext_1"}, email : {"a@acme.com"},
   role : {"admin", "member"}, status : TenantStatusEnum]

CreateAccessUser ==
  \E p \in SeqProcs, setting \in PooledSettings, d \in AccessUserData :
    createUser(p, d.tenantId, setting, d)

ValidateTenantAccess ==
  \E p \in SeqProcs, setting \in PooledSettings, t \in TenantIds,
     who \in Identities :
    validateTenantAccess_call(p, setting, t, who)

AccessNext ==
  \/ CreateAccessUser
  \/ UpdateUserStatus
  \/ GetTenantContext
  \/ ValidateTenantAccess

AccessSpec == Init /\ [][AccessNext]_vars

(* ---- requests creating and updating tenants concurrently ---- *)
ConcTenantData == [slug : Slugs, status : {"active", "suspended"}]

CreateTenantCall ==
  \E p \in Procs, slug \in Slugs, who \in Identities, e \in Emails :
    createTenant_call(p, slug, who, e)

CreateTenantFindUnique ==
  \E p \in Procs, setting \in PooledSettings : createTenant_findUnique(p, setting)

CreateTenantCreate ==
  \E p \in Procs, setting \in PooledSettings : createTenant_create(p, setting)

UpdateTenantCall ==
  \E p \in Procs, id \in TenantIds, d \in ConcTenantData :
    updateTenant_call(p, id, d)

UpdateTenantFindUnique ==
  \E p \in Procs, setting \in PooledSettings : updateTenant_findUnique(p, setting)

UpdateTenantUpdate ==
  \E p \in Procs, setting \in PooledSettings : updateTenant_update(p, setting)

TenantNext ==
  \/ CreateTenantCall
  \/ CreateTenantFindUnique
  \/ CreateTenantCreate
  \/ UpdateTenantCall
  \/ UpdateTenantFindUnique
  \/ UpdateTenantUpdate

TenantSpec == RuleInit /\ [][TenantNext]_vars

(* ---- invitations issued again for an email, one request at a time ---- *)
ReissueNext ==
  \/ CreateInvitation
  \/ AcceptInvitation
  \/ RevokeInvitation
  \/ CleanupExpiredInvitations
  \/ Tick

ReissueSpec == Init /\ [][ReissueNext]_vars

(* ---- requests issuing invitations concurrently, while invitations are ---- *)
(* ---- accepted, revoked and cleaned up                                ---- *)
PendingInvitationData ==
  [tenantId : {DefaultTenantId}, email : Emails, role : {"member"},
   status : {"pending", "accepted"}]

CreateInvitationCall ==
  \E p \in Procs, d \in PendingInvitationData :
    createInvitation_call(p, DefaultTenantId, d)

CreateInvitationChecks ==
  \E p \in Procs, setting \in PooledSettings : createInvitation_checks(p, setting)

CreateInvitationCreate ==
  \E p \in Procs, setting \in PooledSettings : createInvitation_create(p, setting)

ConcAcceptInvitation ==
  \E p \in Procs, setting \in PooledSettings, id \in 1..MaxInvitations,
     who \in Identities :
    acceptInvitation(p, DefaultTenantId, setting, id, who)

ConcRevokeInvitation ==
  \E p \in Procs, setting \in PooledSettings, id \in 1..MaxInvitations :
    revokeInvitation(p, DefaultTenantId, setting, id)

ConcCleanupExpiredInvitations ==
  \E p \in Procs, setting \in PooledSettings :
    cleanupExpiredInvitations(p, DefaultTenantId, setting)

PendingNext ==
  \/ CreateInvitationCall
  \/ CreateInvitationChecks
  \/ CreateInvitationCreate
  \/ ConcAcceptInvitation
  \/ ConcRevokeInvitation
  \/ ConcCleanupExpiredInvitations
  \/ Tick

PendingSpec == RuleInit /\ [][PendingNext]_vars

(* ---- requests calling createTenant, createUser, createInvitation and ---- *)
(* ---- acceptInvitation concurrently                                  ---- *)
ConcInvitationData ==
  [tenantId : {DefaultTenantId}, email : Emails, role : {"owner", "member"},
   status : {"pending"}]

ConcCreateTenant ==
  \E p \in Procs, setting \in PooledSettings, who \in Identities, e \in Emails :
    createTenant(p, setting, "acme", who, e)

ConcCreateInvitation ==
  /\ invitations = {}
  /\ \E p \in Procs, setting \in PooledSettings, d \in ConcInvitationData :
       createInvitation(p, DefaultTenantId, setting, d)

AcceptInvitationCall ==
  \E p \in Procs, id \in 1..MaxInvitations, who \in Identities :
    acceptInvitation_call(p, DefaultTenantId, id, who)

AcceptFindUnique ==
  \E p \in Procs, setting \in PooledSettings : acceptInvitation_findUnique(p, setting)

AcceptExistingMember ==
  \E p \in Procs, setting \in PooledSettings :
    acceptInvitation_existingMember(p, setting)

AcceptExistingOwner ==
  \E p \in Procs, setting \in PooledSettings :
    acceptInvitation_existingOwner(p, setting)

AcceptCreate ==
  \E p \in Procs, setting \in PooledSettings : acceptInvitation_create(p, setting)

ConcInvitationNext ==
  \/ ConcCreateTenant
  \/ ConcCreateUser
  \/ OwnerCheck
  \/ UserCheck
  \/ EmailCheck
  \/ CreateUserTransaction
  \/ ConcCreateInvitation
  \/ AcceptInvitationCall
  \/ AcceptFindUnique
  \/ AcceptExistingMember
  \/ AcceptExistingOwner
  \/ AcceptCreate

ConcInvitationSpec == RuleInit /\ [][ConcInvitationNext]_vars

(* ======================= properties ======================= *)
ByIdOps == {"updateUserRole", "updateUserStatus", "deleteUser"}

GatewayOps == {"tenantUsers.findMany", "tenantUsers.create"}

InFlight(p) == pc[p] \in {"wtc_set", "wtc_callback", "wtc_finally"}

(* C1: an operation run on behalf of a client scoped to tenant T2 never  *)
(* reads or writes a membership row owned by another tenant T1; the by-id *)
(* operations updateUserRole, updateUserStatus and deleteUser included.   *)
C1_Isolation ==
  (lastOp.op \in ByIdOps /\ lastOp.scope # NoTenant)
    => lastOp.touched \subseteq {lastOp.scope}

(* C2: every query the callback of withTenantContext(tenantId, callback)  *)
(* makes runs on a session whose app.current_tenant_id equals tenantId.   *)
C2_SettingInEffect ==
  lastOp.op \in GatewayOps => lastOp.setting = lastOp.wtcArg

(* C3: when withTenantContext returns, after its callback returned or     *)
(* threw, the caller gets the callback's result or error, and once no     *)
(* withTenantContext is running no pooled session holds a tenant setting. *)
C3_ScopeCleared ==
  [][/\ \A p \in Procs :
          (pc[p] = "wtc_finally" /\ pc'[p] = "idle")
            => /\ result'[p].outcome = req[p].cbOutcome
               /\ result'[p].outcome \in {"ok", "PrismaError"}
     /\ (\A p \in Procs : ~InFlight(p)')
          => \A c \in Connections : connSetting'[c] = NoTenant]_vars

(* C3 witness: one withTenantContext has returned its callback's result   *)
(* and another has rethrown its callback's error.                         *)
C3_Witness ==
  \E p, q \in Procs :
    /\ pc[p] = "idle" /\ pc[q] = "idle"
    /\ result[p].op \in GatewayOps /\ result[p].outcome = "ok"
    /\ result[q].op \in GatewayOps /\ result[q].outcome = "PrismaError"

(* C4: a query issued through a tenant-scoped accessor by a request that  *)
(* bound tenant T1 runs for T1, and a row it creates belongs to T1,       *)
(* whatever another request sharing the client does in between.           *)
C4_OwnScopeOnly ==
  (lastOp.op \in GatewayOps /\ lastOp.scope # NoTenant)
    => /\ lastOp.wtcArg = lastOp.scope
       /\ lastOp.created \in {NoTenant, lastOp.scope}

(* C5: the memberships route reads or creates a membership row of the     *)
(* resolved tenant only for a caller verified as a member of that tenant. *)
C5_MembershipVerifiedFirst ==
  (lastOp.op \in {"GET", "POST"}
     /\ (lastOp.touched # {} \/ lastOp.created # NoTenant))
    => lastOp.callerIsMember

(* C6: every statement of a business-rule operation, rule checks and      *)
(* mutation alike, runs inside the operation's transaction on a session   *)
(* whose tenant setting is the affected tenant.                           *)
C6_ChecksAndMutationInScopedTx ==
  lastOp.op \in {"createUser", "deleteUser"}
    => /\ lastOp.inTx
       /\ \A t \in lastOp.touched : lastOp.setting = t

(* C7: a membership row created by the service layer carries the tenant   *)
(* id of the active scope, also when the payload names another tenant.    *)
C7_CreatedRowCarriesScope ==
  (lastOp.op = "createUser" /\ lastOp.scope # NoTenant
     /\ lastOp.created # NoTenant)
    => lastOp.created = lastOp.scope

(* C8: after any sequence of createTenant, createUser, updateUserRole,    *)
(* updateUserStatus, deleteUser, createInvitation and acceptInvitation,   *)
(* every tenant has at most one membership with role owner.               *)
C8_SingleOwner == \A t \in TenantIds : OwnerCount(t) <= 1

(* C8 witness: a tenant has its owner and a second membership, so a       *)
(* second owner was refused or never asked for.                           *)
C8_Witness ==
  \E t \in TenantIds :
    /\ OwnerCount(t) = 1
    /\ \E u \in users : u.tenant_id = t /\ u.role # "owner"
    /\ \E i \in invitations :
         i.tenant_id = t /\ i.role = "owner" /\ i.status = "pending"

(* C9: once a tenant's owner count is 1, no updateUserRole,               *)
(* updateUserStatus or deleteUser brings it back to 0.                    *)
C9_OwnerNeverLost ==
  [][\A t \in TenantIds : OwnerCount(t) = 1 => OwnerCount(t)' >= 1]_vars

(* C10: of two concurrent createUser calls with role owner on a tenant    *)
(* without owner, at most one succeeds and the tenant ends with at most   *)
(* one owner.                                                             *)
C10_OneConcurrentOwner ==
  /\ ~\E p, q \in Procs :
        /\ p # q
        /\ result[p].outcome = "ok" /\ result[p].role = "owner"
        /\ result[q].outcome = "ok" /\ result[q].role = "owner"
        /\ result[p].tenantId = result[q].tenantId
  /\ OwnerCount(DefaultTenantId) <= 1

(* ---- what the claims about createUser speak of ---- *)
OwnerTaken(d) ==
  d.role = "owner" /\ \E u \in users : u.tenant_id = d.tenantId /\ u.role = "owner"

IdentityInTenant(d) ==
  \E u \in users : u.tenant_id = d.tenantId /\ u.clerk_user_id = d.clerkUserId

EmailInTenant(d) ==
  \E u \in users : u.tenant_id = d.tenantId /\ u.email = d.email

IdentityElsewhere(d) ==
  \E u \in users : u.tenant_id # d.tenantId /\ u.clerk_user_id = d.clerkUserId

Refused(d) == OwnerTaken(d) \/ IdentityInTenant(d) \/ EmailInTenant(d)

CreatesExactly(r, d) ==
  /\ r.outcome = "ok"
  /\ \E u \in r.users \ users :
       /\ r.users = users \cup {u}
       /\ u.tenant_id = d.tenantId /\ u.clerk_user_id = d.clerkUserId
       /\ u.email = d.email /\ u.role = d.role /\ u.status = d.status

CreatesNothing(r, error) == r.outcome = error /\ r.users = users

ValidUserData == {d \in UserData : \E t \in tenants : t.id = d.tenantId}

(* C11 as stated: createUser fails with TenantBusinessRuleError and creates *)
(* nothing when the tenant has an owner and the role is owner, or the       *)
(* identity or the email is already in the tenant; in every other case it   *)
(* creates exactly one membership with the supplied fields.                 *)
C11_CreateUserAsStated ==
  ~rlsEnforced =>
    \A setting \in PooledSettings, d \in ValidUserData :
      LET r == createUserCall(setting, d)
      IN IF Refused(d) THEN CreatesNothing(r, "TenantBusinessRuleError")
         ELSE CreatesExactly(r, d)

(* C11: createUser fails with TenantBusinessRuleError and creates nothing   *)
(* in the three refused cases; otherwise the insert is rejected by the      *)
(* database and nothing is created when the identity has a membership in    *)
(* another tenant or the row level security policy applies to a session     *)
(* without the tenant's setting; in every remaining case exactly one        *)
(* membership with the supplied fields is created.                          *)
C11_CreateUserOutcome ==
  \A setting \in PooledSettings, d \in ValidUserData :
    LET r == createUserCall(setting, d)
    IN IF Refused(d) THEN CreatesNothing(r, "TenantBusinessRuleError")
       ELSE IF IdentityElsewhere(d) \/ (rlsEnforced /\ setting # d.tenantId)
       THEN CreatesNothing(r, "PrismaError")
       ELSE CreatesExactly(r, d)

(* C11 witness: a createUser for an existing tenant was rejected by the     *)
(* database because its identity is a member of another tenant.             *)
C11_Witness ==
  /\ ~rlsEnforced
  /\ lastOp.op = "createUser" /\ lastOp.outcome = "PrismaError"
  /\ \E t \in tenants : t.id = lastOp.payload
  /\ \E u \in users : u.tenant_id # lastOp.payload

(* ---- what the claims about one membership speak of ---- *)
Others(u) == {v \in users : v.tenant_id = u.tenant_id /\ v.id # u.id}

OnlyUsersBecome(r, rows) ==
  /\ r.outcome = "ok"
  /\ r.users = rows
  /\ r.tenants = tenants /\ r.invitations = invitations

FailsUnchanged(r, error) ==
  /\ r.outcome = error
  /\ r.users = users /\ r.tenants = tenants /\ r.invitations = invitations

(* C13: updateUserRole(id, newRole) fails with TenantBusinessRuleError when *)
(* newRole is owner and another membership of the tenant is owner, or when  *)
(* the membership is owner, newRole is not, and no other membership of the  *)
(* tenant is admin; a failing call changes nothing; every other call        *)
(* changes the role field of that membership and nothing else.              *)
C13_UpdateUserRoleOutcome ==
  \A setting \in PooledSettings, u \in users, newRole \in TenantRoleEnum :
    LET r == transaction(updateUserRoleTx(setting, u.id, newRole))
    IN IF \/ newRole = "owner" /\ \E v \in Others(u) : v.role = "owner"
          \/ u.role = "owner" /\ newRole # "owner"
             /\ ~\E v \in Others(u) : v.role = "admin"
       THEN FailsUnchanged(r, "TenantBusinessRuleError")
       ELSE OnlyUsersBecome(r, (users \ {u}) \cup {[u EXCEPT !.role = newRole]})

(* C13 witness: a role change of an owner was refused in a tenant without   *)
(* another admin, and the owner is still owner.                             *)
C13_Witness ==
  /\ lastOp.op = "updateUserRole"
  /\ lastOp.outcome = "TenantBusinessRuleError"
  /\ \E u \in users :
       /\ u.tenant_id \in lastOp.touched /\ u.role = "owner"
       /\ Others(u) # {}
       /\ ~\E v \in Others(u) : v.role \in {"admin", "owner"}

Terminal(i) == i.status \in {"accepted", "expired", "revoked"}

Expired(i) == i.expires_at < now

(* C16: an invitation's status only changes from pending to accepted (by   *)
(* acceptInvitation), to expired (by expiry) or to revoked (by              *)
(* revokeInvitation); an accepted, expired or revoked invitation keeps its  *)
(* status under acceptInvitation, revokeInvitation and                      *)
(* cleanupExpiredInvitations, and acceptInvitation or revokeInvitation on   *)
(* it fails with TenantBusinessRuleError.                                   *)
C16_InvitationStateMachine ==
  [][/\ \A i \in invitations :
          /\ \E j \in invitations' : j.id = i.id
          /\ \A j \in invitations' :
               j.id = i.id =>
                 \/ j.status = i.status
                 \/ /\ i.status = "pending" /\ j.status = "accepted"
                    /\ lastOp'.op = "acceptInvitation"
                 \/ /\ i.status = "pending" /\ j.status = "expired"
                    /\ Expired(i)
                    /\ lastOp'.op \in {"cleanupExpiredInvitations",
                                       "acceptInvitation"}
                 \/ /\ i.status = "pending" /\ j.status = "revoked"
                    /\ lastOp'.op = "revokeInvitation"
     /\ \A i \in invitations, setting \in PooledSettings :
          Terminal(i) =>
            /\ \A who \in Identities :
                 FailsUnchanged(
                   transaction(acceptInvitationTx(setting, i.id, who)),
                   "TenantBusinessRuleError")
            /\ FailsUnchanged(transaction(revokeInvitationTx(setting, i.id)),
                              "TenantBusinessRuleError")
            /\ i \in transaction(cleanupExpiredInvitationsStmt(setting)).invitations
    ]_vars

(* C16 witness: acceptInvitation or revokeInvitation has just been refused  *)
(* on an invitation that is accepted, expired or revoked.                   *)
C16_Witness ==
  /\ lastOp.op \in {"acceptInvitation", "revokeInvitation"}
  /\ lastOp.outcome = "TenantBusinessRuleError"
  /\ lastOp.touched # {}
  /\ invitations # {}
  /\ \A i \in invitations : Terminal(i) /\ i.accepted_at # NoTime

(* C17: acceptInvitation on a pending invitation past its expiry fails with *)
(* TenantBusinessRuleError and leaves the invitation stored with status     *)
(* expired.                                                                 *)
C17_ExpiredIsPersisted ==
  \A i \in invitations, setting \in PooledSettings, who \in Identities :
    (i.status = "pending" /\ Expired(i)) =>
      LET r == transaction(acceptInvitationTx(setting, i.id, who))
      IN /\ r.outcome = "TenantBusinessRuleError"
         /\ \E j \in r.invitations : j.id = i.id /\ j.status = "expired"

(* ---- a call that ends in an error leaves every table as it was ---- *)
Clean(r) ==
  r.outcome # "ok"
    => r.tenants = tenants /\ r.users = users /\ r.invitations = invitations

FailedCallsChangeNothing ==
  \A setting \in PooledSettings :
    /\ \A slug \in Slugs, who \in Identities, e \in Emails :
         Clean(transaction(createTenantTx(setting, slug, who, e)))
    /\ \A t \in TenantIds, d \in TenantData :
         Clean(transaction(updateTenantTx(setting, t, d)))
    /\ \A t \in TenantIds : Clean(transaction(deleteTenantTx(setting, t)))
    /\ \A d \in UserData : Clean(createUserCall(setting, d))
    /\ \A id \in 1..MaxUsers :
         /\ \A r \in TenantRoleEnum :
              Clean(transaction(updateUserRoleTx(setting, id, r)))
         /\ \A st \in TenantStatusEnum :
              Clean(transaction(updateUserStatusTx(setting, id, st)))
         /\ Clean(transaction(deleteUserTx(setting, id)))
    /\ \A d \in InvitationData :
         Clean(transaction(createInvitationTx(setting, d)))
    /\ \A id \in 1..MaxInvitations :
         /\ \A who \in Identities :
              Clean(transaction(acceptInvitationTx(setting, id, who)))
         /\ Clean(transaction(revokeInvitationTx(setting, id)))

(* C18: a service operation that ends in an error leaves the stored        *)
(* tenants, memberships and invitations exactly as they were before the     *)
(* call.                                                                    *)
C18_NoPartialCommit ==
  [][/\ lastOp'.outcome # "ok" => dbVars' = dbVars
     /\ FailedCallsChangeNothing]_vars

(* C18 witness: acceptInvitation has just failed on a pending invitation    *)
(* past its expiry, whose update to expired was part of the failed call.    *)
C18_Witness ==
  /\ lastOp.op = "acceptInvitation"
  /\ lastOp.outcome = "TenantBusinessRuleError"
  /\ lastOp.touched # {}
  /\ invitations # {}
  /\ \A i \in invitations : i.status = "pending" /\ Expired(i)

MembershipUnique ==
  \A u, v \in users :
    /\ u.tenant_id = v.tenant_id
    /\ (u.clerk_user_id = v.clerk_user_id \/ u.email = v.email)
    => u = v

Duplicates(tenantId, clerkUserId, email) ==
  \E u \in users :
    u.tenant_id = tenantId /\ (u.clerk_user_id = clerkUserId \/ u.email = email)

Acceptable(i) == i.status = "pending" /\ ~Expired(i)

(* C12 as stated: after any interleaving of createTenant, createUser and    *)
(* acceptInvitation each tenant has at most one membership per identity     *)
(* and per email, and an operation that would add a second one is rejected  *)
(* by the service's own checks, that is with TenantBusinessRuleError.       *)
C12_RejectedByServiceChecks ==
  /\ MembershipUnique
  /\ ~rlsEnforced =>
       \A setting \in PooledSettings, i \in invitations, who \in Identities :
         Acceptable(i) /\ Duplicates(i.tenant_id, who, i.email)
         => transaction(acceptInvitationTx(setting, i.id, who)).outcome
              = "TenantBusinessRuleError"

(* C19: for a pending, unexpired invitation, under any interleaving of      *)
(* acceptInvitation calls (two concurrent callers with different identities *)
(* included), one call succeeds and creates one membership and every other  *)
(* call fails with TenantBusinessRuleError and creates none.                *)
C19_AcceptedExactlyOnce ==
  ~rlsEnforced =>
    \A p, q \in Procs :
      /\ p # q
      /\ result[p].op = "acceptInvitation" /\ result[p].outcome = "ok"
      /\ result[q].op = "acceptInvitation" /\ result[q].outcome # "none"
      /\ Cardinality(users) = 1
      => result[q].outcome = "TenantBusinessRuleError"

(* C21: after any sequence or interleaving of createInvitation,         *)
(* acceptInvitation, revokeInvitation and cleanupExpiredInvitations each *)
(* (tenant, email) pair has at most one invitation in status pending.    *)
C21_UniquePending ==
  \A i, j \in invitations :
    /\ i.tenant_id = j.tenant_id /\ i.email = j.email
    /\ i.status = "pending" /\ j.status = "pending"
    => i = j

(* two requests passed the checks for one email; one invitation was *)
(* stored and the other insert was refused                          *)
C21_Witness ==
  /\ \E p, q \in Procs :
       /\ result[p].op = "createInvitation" /\ result[p].outcome = "ok"
       /\ result[q].op = "createInvitation" /\ result[q].outcome = "PrismaError"
  /\ \E i \in invitations : i.status = "pending"

(* ---- issuing an invitation again ---- *)
Reissue(i) ==
  [tenantId |-> i.tenant_id, email |-> i.email, role |-> "member",
   status |-> "pending"]

PendingFor(i) ==
  \E j \in invitations :
    j.tenant_id = i.tenant_id /\ j.email = i.email /\ j.status = "pending"

MemberFor(i) ==
  \E u \in users : u.tenant_id = i.tenant_id /\ u.email = i.email

AcceptedByCall(i) == i.status = "accepted" /\ i.accepted_at # NoTime

C23_CreateInvitationRefusals ==
  \A setting \in PooledSettings, d \in InvitationData :
    \/ \E i \in invitations : i.tenant_id = d.tenantId /\ i.email = d.email
                              /\ i.status = "pending"
    \/ \E u \in users : u.tenant_id = d.tenantId /\ u.email = d.email
    \/ d.role = "owner" /\ \E u \in users : u.tenant_id = d.tenantId
                                           /\ u.role = "owner"
    => FailsUnchanged(transaction(createInvitationTx(setting, d)),
                      "TenantBusinessRuleError")

(* the tenant has an owner, whose email differs from the one invited as *)
(* owner, and the invitation was refused                                *)
C23_Witness ==
  /\ lastOp.op = "createInvitation"
  /\ lastOp.outcome = "TenantBusinessRuleError"
  /\ OwnerCount(DefaultTenantId) = 1
  /\ \E i \in invitations : i.status = "pending"
  /\ \E i \in invitations : AcceptedByCall(i) /\ i.role = "owner"

(* C24: createTenant(data, ownerIdentity, ownerEmail) either fails, leaving *)
(* no new tenant and no new membership, or creates one tenant together     *)
(* with exactly one membership of it, of role owner, status active and the *)
(* owner's identity; getTenantBySlug(slug) then returns that tenant, whose *)
(* only owner membership is the creator's.                                 *)
C24_CreateTenantOutcome ==
  [][\A p \in SeqProcs, setting \in PooledSettings, slug \in Slugs,
        who \in Identities, e \in Emails :
       lastOp'.op = "createTenant" /\ createTenant(p, setting, slug, who, e)
       => \/ lastOp'.outcome # "ok" /\ dbVars' = dbVars
          \/ /\ lastOp'.outcome = "ok"
             /\ invitations' = invitations
             /\ \E t \in tenants' \ tenants, u \in users' \ users :
                  /\ tenants' = tenants \cup {t}
                  /\ users' = users \cup {u}
                  /\ t.slug = slug
                  /\ u.tenant_id = t.id /\ u.role = "owner"
                  /\ u.status = "active" /\ u.clerk_user_id = who
                  /\ u.email = e
                  /\ getTenantBySlug(slug)' = {t}
                  /\ {x \in users' : x.tenant_id = t.id /\ x.role = "owner"}
                       = {u}]_vars

C24_Witness ==
  /\ lastOp.op = "createTenant" /\ lastOp.outcome = "ok"
  /\ \E t \in getTenantBySlug("acme") :
       /\ lastOp.created = t.id
       /\ OwnerCount(t.id) = 1
       /\ \E u \in users : u.tenant_id = t.id /\ u.role = "owner"
                           /\ u.status = "active"

References(rows, tenantId) == {x \in rows : x.tenant_id = tenantId}

(* C26: deleteTenant(id) succeeds only when the tenant has no membership; *)
(* with a membership it fails with TenantBusinessRuleError and deletes    *)
(* nothing; after a successful deleteTenant no invitation, audit log      *)
(* entry or setting that references the tenant remains.                   *)
C26_DeleteTenantOutcome ==
  [][\A p \in SeqProcs, setting \in PooledSettings, id \in TenantIds :
       lastOp'.op = "deleteTenant" /\ deleteTenant(p, setting, id)
       => /\ References(users, id) # {}
             => lastOp'.outcome = "TenantBusinessRuleError"
          /\ lastOp'.outcome # "ok" => dbVars' = dbVars
          /\ lastOp'.outcome = "ok"
             => /\ References(users, id) = {}
                /\ \A t \in tenants' : t.id # id
                /\ References(invitations', id) = {}
                /\ References(audit_logs', id) = {}
                /\ References(tenant_settings', id) = {}
                /\ References(users', id) = {}]_vars

(* the default tenant had an invitation, an audit log entry and a setting *)
(* and was deleted                                                         *)
C26_Witness ==
  /\ lastOp.op = "deleteTenant" /\ lastOp.outcome = "ok"
  /\ \A t \in tenants : t.id # DefaultTenantId
  /\ \E p \in SeqProcs :
       /\ result[p].op = "tenantSettings.create" /\ result[p].outcome = "ok"
       /\ result[p].tenantId = DefaultTenantId
  /\ tenant_settings = {} /\ audit_logs = {} /\ invitations = {}

(* C27: in getTenantContext the fallback slug is used only when extraction *)
(* yields no slug and resolution is marked optional; when resolution is    *)
(* required and extraction yields no slug an error is signalled before any *)
(* tenant or membership lookup and the fallback slug is never used; when   *)
(* it is optional, with no slug and no fallback, the result is null and no *)
(* lookup is made.                                                         *)
C27_FallbackOnlyWhenOptional ==
  lastOp.op \in {"getTenantContext", "withTenant"} =>
    LET c == lastOp.ctx
    IN /\ c.fallbackUsed \/ (c.slug # c.extracted)
          => ~Truthy(c.extracted) /\ ~c.required /\ c.slug = c.fallback
       /\ c.required /\ ~Truthy(c.extracted)
          => /\ c.outcome = <<"Tenant", "context", "is", "required", "but",
                              "not", "provided">>
             /\ c.lookups = <<>>
             /\ ~c.fallbackUsed /\ c.slug = c.extracted
       /\ ~c.required /\ ~Truthy(c.extracted) /\ ~Truthy(c.fallback)
          => c.outcome = <<"null">> /\ c.lookups = <<>>

(* resolution required, a fallback configured, no slug in the request *)
C27_Witness ==
  /\ lastOp.op = "getTenantContext"
  /\ lastOp.ctx.required /\ ~Truthy(lastOp.ctx.extracted)
  /\ Truthy(lastOp.ctx.fallback)
  /\ lastOp.ctx.lookups = <<>>
  /\ lastOp.ctx.error = "Error"

(* ---- the permission sets the specification names ---- *)
FullPermissions ==
  {"tenant:read", "tenant:update", "tenant:delete", "user:read",
   "user:create", "user:update", "user:delete", "invitation:create",
   "invitation:delete", "settings:read", "settings:update", "audit:read"}

ReadPermissions == {"tenant:read", "user:read", "settings:read", "audit:read"}

ContextResolved ==
  lastOp.op = "getTenantContext" /\ lastOp.ctx.outcome = <<"TenantContext">>

(* C28: the role-to-permission table is total over owner, admin, member  *)
(* and viewer: owner and admin each map to the full set, member and      *)
(* viewer to read-only sets, any unknown role to the empty set; the      *)
(* permission set of a context resolved by getTenantContext is the table *)
(* entry of the membership's role.                                       *)
C28_RolePermissionTable ==
  ContextResolved =>
    /\ \A role \in {"owner", "admin"} :
         getRolePermissions(role) = FullPermissions
    /\ \A role \in {"member", "viewer"} :
         /\ getRolePermissions(role) # {}
         /\ getRolePermissions(role) \subseteq ReadPermissions
    /\ \A role \in {"user", "guest", ""} \ TenantRoleEnum :
         getRolePermissions(role) = {}
    /\ \A role \in lastOp.ctx.role :
         lastOp.ctx.permissions = getRolePermissions(role)

(* C29: checkPermission(ctx, p) is true exactly when p is in            *)
(* ctx.permissions; requirePermission(ctx, p) returns normally when it  *)
(* is and otherwise signals an error that reaches the client as HTTP    *)
(* 403.                                                                 *)
C29_RequirePermission ==
  ContextResolved =>
    /\ checkPermission(lastOp.ctx, lastOp.permission)
         <=> lastOp.permission \in lastOp.ctx.permissions
    /\ lastOp.permission \in lastOp.ctx.permissions
         => lastOp.thrown = <<>> /\ lastOp.status = 200
    /\ lastOp.permission \notin lastOp.ctx.permissions
         => lastOp.thrown # <<>> /\ lastOp.status = 403

(* C30: handleApiError with getTenantErrorStatusCode answers 400 to an   *)
(* input validation failure, 404 to tenant not found and to membership   *)
(* not found, 403 to insufficient permissions, 409 to a business rule    *)
(* violation, 500 to a missing tenant context and to any unrecognised    *)
(* error; each kind of error has exactly one of these codes.             *)
C30_ErrorStatus ==
  lastOp.op = "handleApiError" =>
    LET error == lastOp.outcome
    IN /\ lastOp.status \in {400, 403, 404, 409, 500}
       /\ lastOp.status = handleApiError(error)
       /\ lastOp.status = 400
            <=> error \in {"ZodError", "TenantValidationError"}
       /\ lastOp.status = 404
            <=> error \in {"TenantNotFoundError", "TenantUserNotFoundError"}
       /\ lastOp.status = 403 <=> error = "TenantPermissionError"
       /\ lastOp.status = 409 <=> error = "TenantBusinessRuleError"
       /\ lastOp.status = 500
            <=> error \in {"TenantContextError", "Error", "TypeError",
                           "PrismaError"}

(* a business rule violation answered with 409 *)
C30_Witness ==
  /\ lastOp.op = "handleApiError"
  /\ lastOp.outcome = "TenantBusinessRuleError"
  /\ lastOp.status = 409

(* ---- what the database holds for a resolved slug and caller ---- *)
TenantOfSlug(slug) == {t \in tenants : {t.slug} = slug}

MembershipsOf(slug, userId) ==
  {u \in users : /\ \E t \in TenantOfSlug(slug) : u.tenant_id = t.id
                 /\ u.clerk_user_id = userId}

(* C31: the withTenantContext middleware never invokes the wrapped       *)
(* handler without a verified context when resolution is required, and   *)
(* answers 400 when a required tenant slug is absent, 404 when the       *)
(* resolved slug has no matching tenant, and 404 when the authenticated  *)
(* caller has no membership in the resolved tenant.                      *)
C31_MiddlewareStatus ==
  lastOp.op = "withTenant" =>
    LET c == lastOp.ctx
    IN /\ c.required /\ lastOp.handler => c.outcome = <<"TenantContext">>
       /\ c.required /\ ~Truthy(c.slug) => lastOp.status = 400 /\ ~lastOp.handler
       /\ Truthy(c.slug) /\ TenantOfSlug(c.slug) = {}
            => lastOp.status = 404 /\ ~lastOp.handler
       /\ (/\ Truthy(c.slug) /\ TenantOfSlug(c.slug) # {}
           /\ lastOp.caller # NoUser
           /\ MembershipsOf(c.slug, lastOp.caller) = {})
            => lastOp.status = 404 /\ ~lastOp.handler

(* C31 for the middleware with a client injected *)
C31_InjectedOnly == lastOp.prisma = "client" => C31_MiddlewareStatus

(* C32: any operation on a tenant-scoped accessor of the client          *)
(* (tenantUsers, tenantInvitations, auditLogs, tenantSettings) attempted *)
(* while no tenant context is set fails with the context-missing error   *)
(* before any statement reaches the database, and that error surfaces as *)
(* HTTP 500; accesses to the tenants table are never subject to this.    *)
C32_ContextMissing ==
  lastOp.op = "accessor" =>
    /\ lastOp.accessor \in ScopedAccessors /\ lastOp.wtcArg = NoTenant
         => /\ ~lastOp.reached
            /\ lastOp.outcome = "Error"
            /\ lastOp.status = 500
    /\ lastOp.accessor = "tenants" => lastOp.reached

(* C32 for the methods an accessor overrides *)
C32_OverriddenOnly ==
  lastOp.method \in Overridden(lastOp.accessor) \/ lastOp.accessor = "tenants"
    => C32_ContextMissing

(* C33: with integer time an invitation is never accepted at a time      *)
(* t >= expiresAt (acceptInvitation at exactly t = expiresAt fails as    *)
(* expired), and the invitations acceptInvitation would accept at time t *)
(* are the ones getPendingInvitationsByTenant reports at time t.         *)
C33_ExpiryBoundary ==
  /\ \A i \in invitations :
       i.status = "accepted" => i.accepted_at < i.expires_at
  /\ lastOp.op = "getPendingInvitationsByTenant" /\ lastOp.at = now
       => lastOp.reported
            = {i.id : i \in {j \in invitations :
                               j.tenant_id = lastOp.payload /\ Acceptable(j)}}

(* C33 away from the boundary t = expiresAt *)
C33_OffBoundary ==
  (\A i \in invitations : i.expires_at # now /\ i.accepted_at # i.expires_at)
    => C33_ExpiryBoundary

(* ---- the outcome of an operation on an id that matches no membership ---- *)
NoSuchMembership(id) == ~\E u \in users : u.id = id

NotFoundOutcome ==
  /\ lastOp'.outcome = "TenantUserNotFoundError"
  /\ handleApiError(lastOp'.outcome) = 404
  /\ lastOp'.touched = {}
  /\ users' = users

MissingIdOutcome(roles, statuses) ==
  \A p \in SeqProcs, setting \in PooledSettings, scope \in Scopes,
     id \in 1..MaxUsers :
    NoSuchMembership(id) =>
      /\ \A r \in roles :
           lastOp'.op = "updateUserRole"
           /\ updateUserRole_unknown(p, scope, setting, id, r) => NotFoundOutcome
      /\ \A st \in statuses :
           lastOp'.op = "updateUserStatus"
           /\ updateUserStatus_unknown(p, scope, setting, id, st)
           => NotFoundOutcome
      /\ lastOp'.op = "deleteUser" /\ deleteUser(p, scope, setting, id)
           => NotFoundOutcome

(* C34, as stated: updateUserRole, updateUserStatus and deleteUser called *)
(* with an id that matches no membership fail with                        *)
(* TenantUserNotFoundError (HTTP 404) without any update, delete or       *)
(* ownership check, and leave every membership unchanged.                 *)
C34_MissingIdAnyInput == [][MissingIdOutcome(RoleInputs, StatusInputs)]_vars

(* C34, amended: the same for a role and a status of the enums; a value *)
(* outside them is refused with a ZodError before the lookup.           *)
C34_MissingId ==
  [][/\ MissingIdOutcome(TenantRoleEnum, TenantStatusEnum)
     /\ lastOp'.outcome = "ZodError" => dbVars' = dbVars]_vars

(* a membership exists, and an operation on another id was refused *)
C34_Witness ==
  /\ lastOp.op \in {"updateUserRole", "updateUserStatus", "deleteUser"}
  /\ lastOp.outcome = "TenantUserNotFoundError"
  /\ users # {}

(* ---- governance of a tenant ---- *)
Governed(rows, tenantId) ==
  \E u \in rows : u.tenant_id = tenantId /\ u.role \in {"owner", "admin"}

(* C35: under any interleaving of updateUserRole(owner -> non-owner)     *)
(* with a concurrent deleteUser or updateUserRole on the tenant's only   *)
(* admin, the demotion commits only if another admin membership exists   *)
(* in the tenant at the moment it commits, so no interleaving ends with  *)
(* a tenant that has neither an owner nor an admin.                      *)
C35_DemotionChecksAtCommit ==
  [][\A p \in Procs :
       (/\ pc[p] = "ur_update" /\ pc'[p] = "idle"
        /\ req[p].currentRole = "owner" /\ req[p].role # "owner"
        /\ result'[p].outcome = "ok")
       => /\ \E u \in users : /\ u.tenant_id = req[p].tenantId
                              /\ u.role = "admin" /\ u.id # req[p].userId
          /\ Governed(users', req[p].tenantId)]_vars

(* C36: every invitation created by createInvitation starts in status    *)
(* pending with an expiry 7 days after creation, whatever status or      *)
(* expiresAt the caller's input contains; consequently an invitation is  *)
(* in status accepted only if acceptInvitation succeeded on it and       *)
(* created its membership.                                               *)
C36_StartsPending ==
  [][/\ lastOp'.op = "createInvitation" /\ lastOp'.outcome = "ok"
          => \A i \in invitations' \ invitations :
               /\ i.status = "pending"
               /\ i.expires_at = now + InvitationTtl
     /\ \A i \in invitations' :
          i.status = "accepted" /\ ~(\E j \in invitations : j.id = i.id
                                                   /\ j.status = "accepted")
          => /\ lastOp'.op = "acceptInvitation" /\ lastOp'.outcome = "ok"
             /\ i.accepted_at = now
             /\ \E u \in users' \ users :
                  u.tenant_id = i.tenant_id /\ u.email = i.email]_vars

(* C37: updateTenant is a partial update: an update that succeeds without  *)
(* supplying a status leaves the tenant's status as it was, so a suspended  *)
(* tenant stays suspended.                                                  *)
C37_PartialUpdate ==
  [][\A p \in SeqProcs, setting \in PooledSettings, id \in TenantIds,
        d \in UpdateTenantInputs :
       updateTenant_unknown(p, setting, id, d) /\ d.status = Null
       /\ lastOp'.op = "updateTenant" /\ lastOp'.outcome = "ok"
       => \A t \in tenants : t.id = id
            => \E n \in tenants' : n.id = id /\ n.status = t.status]_vars

(* C37 for update data with only a name: the update is refused whole *)
C37_NameOnlyRefused ==
  [][\A p \in SeqProcs, setting \in PooledSettings, id \in TenantIds,
        d \in UpdateTenantInputs :
       updateTenant_unknown(p, setting, id, d) /\ d.slug = Null
       => lastOp'.outcome = "ZodError" /\ tenants' = tenants]_vars

(* C37 for a status that happens to be the default: the update keeps it *)
C37_ActiveKept ==
  [][\A p \in SeqProcs, setting \in PooledSettings, id \in TenantIds,
        d \in UpdateTenantInputs :
       updateTenant_unknown(p, setting, id, d) /\ d.status = Null
       /\ lastOp'.outcome = "ok"
       => \A t \in tenants : t.id = id /\ t.status = "active"
            => \E n \in tenants' : n.id = id /\ n.status = "active"]_vars

(* C38: when getTenantContext fails because the request has no           *)
(* authenticated user, the withTenantContext middleware answers 401,      *)
(* not the 400 of a missing required tenant slug, and does not invoke the *)
(* wrapped handler.                                                       *)
C38_Unauthenticated ==
  (/\ lastOp.op = "withTenant"
   /\ lastOp.caller = NoUser
   /\ Truthy(lastOp.ctx.slug)
   /\ TenantOfSlug(lastOp.ctx.slug) # {})
    => lastOp.status = 401 /\ ~lastOp.handler

(* C38 without the status: the handler is not invoked *)
C38_HandlerNotInvoked ==
  (/\ lastOp.op = "withTenant"
   /\ lastOp.caller = NoUser
   /\ Truthy(lastOp.ctx.slug))
    => ~lastOp.handler /\ lastOp.status \in {400, 404, 500}

(* C38 for the middleware with a client injected: the failure is answered *)
(* like a missing slug                                                     *)
C38_InjectedBadRequest ==
  (/\ lastOp.op = "withTenant"
   /\ lastOp.prisma = "client"
   /\ lastOp.ctx.outcome = <<"User", "authentication", "required">>)
    => lastOp.status = 400 /\ ~lastOp.handler

(* C39: a tenant context is granted only to an active membership:        *)
(* getTenantContext returns a context for (tenant, caller) exactly when   *)
(* validateTenantAccess(tenant.id, caller) returns a membership, never    *)
(* for a membership whose status is suspended or cancelled.               *)
C39_ActiveMembershipOnly ==
  (/\ lastOp.op = "getTenantContext"
   /\ Truthy(lastOp.ctx.slug)
   /\ lastOp.caller # NoUser)
    => \A t \in TenantOfSlug(lastOp.ctx.slug) :
         lastOp.ctx.outcome = <<"TenantContext">>
           <=> validateTenantAccess(t.id, lastOp.caller, lastOp.setting) # {}

(* C39 in the one direction that holds: an active membership is granted *)
(* a context                                                            *)
C39_ActiveGranted ==
  (/\ lastOp.op = "getTenantContext"
   /\ Truthy(lastOp.ctx.slug)
   /\ lastOp.caller # NoUser)
    => \A t \in TenantOfSlug(lastOp.ctx.slug) :
         validateTenantAccess(t.id, lastOp.caller, lastOp.setting) # {}
           => lastOp.ctx.outcome = <<"TenantContext">>

(* C40: after any sequence of createTenant, createUser, updateUserRole,  *)
(* updateUserStatus and deleteUser, every tenant that has an owner        *)
(* membership has an owner whose status is active.                        *)
C40_ActiveOwner ==
  \A t \in tenants :
    (\E u \in users : u.tenant_id = t.id /\ u.role = "owner")
      => \E u \in users :
           u.tenant_id = t.id /\ u.role = "owner" /\ u.status = "active"

(* C40 for the one status the service guards: the only active owner is *)
(* never moved to suspended                                            *)
C40_NeverSuspended ==
  [][\A u \in users :
       (/\ u.role = "owner" /\ u.status = "active"
        /\ lastOp'.op = "updateUserStatus")
       => ~\E n \in users' : n.id = u.id /\ n.role = "owner"
                             /\ n.status = "suspended"]_vars
====
